---- MODULE Spec2Model ----
(***************************************************************************)
(* Data-ingestion, location-resolution and metrics-aggregation engine of   *)
(* the district data query API.                                            *)
(*                                                                         *)
(* Strings are sequences of one-character strings, so that prefix tests,   *)
(* trimming, case folding, pattern matching and CSV scanning are computed  *)
(* character by character as the JavaScript does.  Objects are functions   *)
(* from field names to values; a field that is absent is not in the        *)
(* DOMAIN and reads as Undefined.                                          *)
(***************************************************************************)
EXTENDS Integers, Sequences, FiniteSets, TLC

VARIABLES
    pc,           \* "ready" before the call under study, "done" after it
    facilities,   \* filterByLocation / calculateMetrics: the input records
    location,     \* filterByLocation: the location filter object
    filtered,     \* filterByLocation: the returned array
    locations,    \* getLocationByCode: the locations document
    code,         \* getLocationByCode: the queried code
    found,        \* getLocationByCode: the returned object, or Null
    csvContent,   \* parseCSV: the raw text
    parsed,       \* parseCSV: the returned array of row objects
    line,         \* parseCSVLine: one line of text
    values,       \* parseCSVLine: the returned array of field strings
    fields,       \* the field values a writer put on the line
    wrapped,      \* which of them the writer wrapped in double quotes
    category,     \* calculateMetrics: the category argument
    metrics,      \* calculateMetrics: the returned aggregate
    breakdown,    \* getSubcountyBreakdown: the returned array
    argCurrent,   \* getSeverity: the first argument
    argTarget,    \* getSeverity: the second argument
    returnedSeverity, \* getSeverity: the returned level
    benchmarkTables, \* the module-level BENCHMARKS object, as it is now
    held,            \* an aggregate a caller kept from an earlier call
    dataCache,       \* the module-level dataCache Map
    calls,           \* the calls of loadCSVData and loadLocations
    fetchCount,      \* by cache key, the fetches of its source started so far
    parseCount,      \* by cache key, the times its source was parsed so far
    argValue,        \* the argument of isYes
    returnedYes,     \* what isYes returned
    schema,          \* getDataSchema: the returned object
    clock,           \* what Date.now() returns
    rateLimitMap,    \* the module-level rateLimitMap
    requestIP,       \* the client of the last request
    returnedLimited, \* what isRateLimited returned for it
    answered,        \* by client, how its latest request was answered
    watchFrom,       \* the start of the observed interval
    watchIP,         \* the client observed in it
    watchCount,      \* its requests admitted in the interval so far
    aiResponse,      \* validateResponse: the caller's object, changed in place
    givenResponse,   \* validateResponse: the argument as it was passed
    returnedResponse \* validateResponse: the returned object

vars == <<pc, facilities, location, filtered, locations, code, found,
          csvContent, parsed, line, values, fields, wrapped, category,
          metrics, breakdown,
          argCurrent, argTarget, returnedSeverity,
          benchmarkTables, held,
          dataCache, calls, fetchCount, parseCount,
          argValue, returnedYes,
          schema,
          clock, rateLimitMap, requestIP, returnedLimited, answered,
          watchFrom, watchIP, watchCount,
          aiResponse, givenResponse, returnedResponse>>

filterVars   == <<facilities, location, filtered>>
resolverVars == <<locations, code, found>>
csvVars      == <<csvContent, parsed>>
lineVars     == <<line, values, fields, wrapped>>
metricsVars  == <<category, metrics, breakdown>>
severityVars == <<argCurrent, argTarget, returnedSeverity>>
aliasVars == <<benchmarkTables, held>>
loaderVars == <<dataCache, calls, fetchCount, parseCount>>
yesVars == <<argValue, returnedYes>>
schemaVars == <<schema>>
responseVars == <<aiResponse, givenResponse, returnedResponse>>
rateVars == <<clock, rateLimitMap, requestIP, returnedLimited, answered,
          watchFrom, watchIP, watchCount>>

-----------------------------------------------------------------------------
(* JavaScript values *)

\* The value of a missing property.  No string equals it: every element of
\* a string is a single character.
Undefined == <<"undefined">>

\* obj[key] for an object held as a function.
Get(obj, key) == IF key \in DOMAIN obj THEN obj[key] ELSE Undefined

\* ToBoolean on the values the program handles: undefined and '' are falsy.
Truthy(v) == v # Undefined /\ v # <<>>

\* a || b
Or(a, b) == IF Truthy(a) THEN a ELSE b

\* String.prototype.startsWith: position-by-position comparison.
StartsWith(s, prefix) ==
    /\ Len(prefix) <= Len(s)
    /\ \A i \in 1..Len(prefix) : s[i] = prefix[i]

\* The return value null.
Null == <<"null">>

\* All sequences over S of length at most n.
SeqsUpTo(S, n) == UNION {[1..k -> S] : k \in 0..n}

-----------------------------------------------------------------------------
(* Location codes *)

\* A node of the administrative hierarchy is named by the path of its
\* per-level digit strings; its code concatenates the level letter and the
\* digits of every level on the path.
LevelLetter == <<"D", "S", "P", "V">>

RECURSIVE CodeOf(_)
CodeOf(path) ==
    IF path = <<>> THEN <<>>
    ELSE CodeOf(SubSeq(path, 1, Len(path) - 1))
             \o <<LevelLetter[Len(path)]>> \o path[Len(path)]

\* Digit strings used as per-level codes.
One    == <<"1">>
Two    == <<"2">>
Twelve == <<"1", "2">>

\* A small hierarchy: three districts (1, 12, 2), subcounties 1 and 12 of
\* district 1, subcounty 1 of district 12, and one parish and village
\* below D1S1.  The set is closed under taking the parent.
TreePaths ==
    { <<One>>, <<Twelve>>, <<Two>>,
      <<One, One>>, <<One, Twelve>>, <<Twelve, One>>,
      <<One, One, One>>, <<One, One, One, One>> }

\* p is q or an ancestor of q in the hierarchy.
IsAncestorOrSelf(p, q) ==
    Len(p) <= Len(q) /\ SubSeq(q, 1, Len(p)) = p

-----------------------------------------------------------------------------
(* filterByLocation *)

\* A facility row holding the given fields.
Row1(k, v) == k :> v
Row2(k1, v1, k2, v2) == (k1 :> v1) @@ (k2 :> v2)

\* Rows the filter is tried on: one per node of the hierarchy, rows whose
\* location_code is missing, empty or in another letter case, rows that
\* carry the capitalised column Location_code, and rows with a further
\* attribute.
FilterRowPool ==
    { Row1("location_code", CodeOf(p)) : p \in TreePaths }
    \cup { Row1("name", <<"a">>),
           Row1("location_code", <<>>),
           Row1("location_code", <<"d", "1">>),
           Row1("Location_code", CodeOf(<<One, One>>)),
           Row2("location_code", <<>>, "Location_code", CodeOf(<<One, One>>)),
           Row2("location_code", CodeOf(<<Two>>),
                "Location_code", CodeOf(<<One, One>>)),
           Row2("location_code", CodeOf(<<One, One>>), "name", <<"a">>),
           Row2("location_code", CodeOf(<<Two>>), "name", <<"a">>) }

\* Largest number of facility rows in one call.
MaxFacilities == 2

\* Location filter objects: a field that is not given reads as Undefined.
LocationFilters ==
    [ district  : {Undefined, CodeOf(<<One>>), CodeOf(<<Twelve>>)},
      subcounty : {Undefined, <<>>, CodeOf(<<One, One>>)},
      parish    : {Undefined, <<>>, CodeOf(<<One, One, One>>)},
      village   : {Undefined, CodeOf(<<One, One, One, One>>)} ]

filterCodeOf_districtFirst(loc) ==
    IF Truthy(Get(loc, "district")) THEN Get(loc, "district")
    ELSE IF Truthy(Get(loc, "subcounty")) THEN Get(loc, "subcounty")
    ELSE IF Truthy(Get(loc, "parish")) THEN Get(loc, "parish")
    ELSE IF Truthy(Get(loc, "village")) THEN Get(loc, "village")
    ELSE Null

\* The code the filter is applied with (filterCode), Null when no field of
\* the location is set.
filterCodeOf(loc) ==
    IF Truthy(Get(loc, "village")) THEN Get(loc, "village")
    ELSE IF Truthy(Get(loc, "parish")) THEN Get(loc, "parish")
    ELSE IF Truthy(Get(loc, "subcounty")) THEN Get(loc, "subcounty")
    ELSE IF Truthy(Get(loc, "district")) THEN Get(loc, "district")
    ELSE Null

\* The callback of facilities.filter: the row's code is location_code, or
\* Location_code when that is missing or empty, or ''.
rowKept_exactMatch(row, filterCode) ==
    LET locationCode ==
            Or(Or(Get(row, "location_code"), Get(row, "Location_code")), <<>>)
    IN  locationCode = filterCode

rowKept(row, filterCode) ==
    LET locationCode ==
            Or(Or(Get(row, "location_code"), Get(row, "Location_code")), <<>>)
    IN  StartsWith(locationCode, filterCode)

RECURSIVE filterRows(_, _)
filterRows(rows, filterCode) ==
    IF rows = <<>> THEN <<>>
    ELSE (IF rowKept(Head(rows), filterCode) THEN <<Head(rows)>> ELSE <<>>)
             \o filterRows(Tail(rows), filterCode)

filterByLocation(rows, loc) ==
    LET filterCode == filterCodeOf(loc)
    IN  IF filterCode = Null THEN rows ELSE filterRows(rows, filterCode)

InitFilter ==
    /\ pc = "ready"
    /\ facilities \in SeqsUpTo(FilterRowPool, MaxFacilities)
    /\ location \in LocationFilters
    /\ filtered = <<>>
    /\ locations = <<>> /\ code = <<>> /\ found = <<>>
    /\ csvContent = <<>> /\ parsed = <<>>
    /\ line = <<>> /\ values = <<>> /\ fields = <<>> /\ wrapped = <<>>
    /\ category = "" /\ metrics = <<>> /\ breakdown = <<>>
    /\ argCurrent = 0 /\ argTarget = 0 /\ returnedSeverity = ""
    /\ benchmarkTables = <<>> /\ held = <<>>
    /\ dataCache = <<>> /\ calls = <<>>
    /\ fetchCount = <<>> /\ parseCount = <<>>
    /\ argValue = <<>> /\ returnedYes = FALSE
    /\ schema = <<>>
    /\ clock = 0 /\ rateLimitMap = <<>> /\ answered = <<>>
    /\ requestIP = "" /\ returnedLimited = FALSE
    /\ watchFrom = 0 /\ watchIP = "" /\ watchCount = 0
    /\ aiResponse = <<>> /\ givenResponse = <<>> /\ returnedResponse = <<>>

FilterByLocation ==
    /\ pc = "ready"
    /\ filtered' = filterByLocation(facilities, location)
    /\ pc' = "done"
    /\ UNCHANGED <<facilities, location, resolverVars, csvVars, lineVars,
                   metricsVars,
                   severityVars,
                   aliasVars,
                   loaderVars,
                   yesVars,
                   schemaVars,
                   rateVars,
                   responseVars>>

NextFilter == FilterByLocation

SpecFilter == InitFilter /\ [][NextFilter]_vars

-----------------------------------------------------------------------------
(* Properties of filterByLocation *)

\* p is a literal prefix of s.
IsPrefixOf(p, s) == \E k \in 0..Len(s) : SubSeq(s, 1, k) = p

Priority == <<"village", "parish", "subcounty", "district">>

\* The non-empty fields of the filter, as positions of Priority.
PresentFields == {i \in 1..4 : Truthy(location[Priority[i]])}

\* The field of highest priority among the non-empty ones.
ChosenField ==
    Priority[CHOOSE i \in PresentFields : \A j \in PresentFields : i <= j]

ChosenCode == location[ChosenField]

\* The code a row is filed under: location_code, else Location_code.
EffectiveCode(row) ==
    IF "location_code" \in DOMAIN row /\ row["location_code"] # <<>>
    THEN row["location_code"]
    ELSE IF "Location_code" \in DOMAIN row THEN row["Location_code"]
    ELSE <<>>

\* ---- C1 --------------------------------------------------------------
\* C1 as stated: a record is kept if and only if its location_code
\* attribute starts with the chosen filter code; no other attribute has
\* any influence.
C1_KeptIffLocationCodePrefix ==
    (pc = "done" /\ PresentFields # {}) =>
        filtered = SelectSeq(facilities,
                       LAMBDA r : /\ "location_code" \in DOMAIN r
                                  /\ IsPrefixOf(ChosenCode, r["location_code"]))

\* C1 amended: a record is kept if and only if the first non-empty of its
\* location_code and Location_code attributes starts with the chosen filter
\* code (case-sensitive literal prefix); no other attribute has any
\* influence.
C1_KeptIffEffectiveCodePrefix ==
    (pc = "done" /\ PresentFields # {}) =>
        filtered = SelectSeq(facilities,
                       LAMBDA r : IsPrefixOf(ChosenCode, EffectiveCode(r)))

\* A filtered call that keeps a row filed under Location_code only and
\* drops another row.
C1_Witness ==
    /\ pc = "done" /\ PresentFields # {}
    /\ Len(facilities) = 2 /\ Len(filtered) = 1
    /\ "location_code" \notin DOMAIN filtered[1]

\* ---- C2 --------------------------------------------------------------
\* The rows are all tagged with the code of a node of the hierarchy.
AllTagged ==
    \A i \in 1..Len(facilities) :
        /\ DOMAIN facilities[i] = {"location_code"}
        /\ \E p \in TreePaths : facilities[i]["location_code"] = CodeOf(p)

NodeOf(row) == CHOOSE p \in TreePaths : row["location_code"] = CodeOf(p)

\* C2: filtering by the code of node X returns exactly the records tagged
\* with X or with a descendant of X, never a record of an ancestor or of a
\* sibling subtree, for codes with any number of digits per level.
C2_ExactlySubtree ==
    \A x \in TreePaths :
        (/\ pc = "done" /\ AllTagged /\ PresentFields # {}
         /\ ChosenCode = CodeOf(x)) =>
            filtered = SelectSeq(facilities,
                           LAMBDA r : IsAncestorOrSelf(x, NodeOf(r)))

\* ---- C3 --------------------------------------------------------------
\* C3: the filter is applied with exactly one code, that of the non-empty
\* field of highest priority village > parish > subcounty > district, the
\* less specific fields being ignored; when no field is non-empty the
\* result is the input, same records in the same order.
C3_MostSpecificFieldOnly ==
    pc = "done" =>
        IF PresentFields = {}
        THEN filtered = facilities
        ELSE filtered = SelectSeq(facilities,
                            LAMBDA r : IsPrefixOf(ChosenCode, EffectiveCode(r)))

\* A call with both a village and a district set, and a row that is in the
\* district but not in the village: the row is dropped.
C3_Witness ==
    /\ pc = "done"
    /\ Truthy(location["village"]) /\ Truthy(location["district"])
    /\ \E i \in 1..Len(facilities) :
          /\ IsPrefixOf(location["district"], EffectiveCode(facilities[i]))
          /\ ~IsPrefixOf(location["village"], EffectiveCode(facilities[i]))
          /\ \A j \in 1..Len(filtered) : filtered[j] # facilities[i]

-----------------------------------------------------------------------------
(* getLocationByCode *)

\* The null a function returning objects returns: an object no location
\* description equals.
NullObj == [null |-> TRUE]

Digits == {"0", "1", "2", "3", "4", "5", "6", "7", "8", "9"}

\* The position after the longest run of digits of s that starts at i (\d+
\* is greedy, and what follows it in every pattern is a letter or the end).
RECURSIVE SkipDigits(_, _)
SkipDigits(s, i) ==
    IF i <= Len(s) /\ s[i] \in Digits THEN SkipDigits(s, i + 1) ELSE i

\* s, read from position i, is the segments lvl..n of a code and then ends:
\* each segment is its level letter followed by one or more digits.
RECURSIVE MatchSegments(_, _, _, _)
MatchSegments(s, i, lvl, n) ==
    /\ i <= Len(s)
    /\ s[i] = LevelLetter[lvl]
    /\ LET j == SkipDigits(s, i + 1)
       IN  /\ j > i + 1
           /\ IF lvl = n THEN j = Len(s) + 1
              ELSE MatchSegments(s, j, lvl + 1, n)

\* /^D\d+$/, /^D\d+S\d+$/, /^D\d+S\d+P\d+$/, /^D\d+S\d+P\d+V\d+$/ for
\* n = 1, 2, 3, 4.
TestPattern_anyLevel(n, s) == \E m \in 1..4 : MatchSegments(s, 1, 1, m)

TestPattern(n, s) == MatchSegments(s, 1, 1, n)

\* The first result of a loop that returns at its first hit.
RECURSIVE FirstFound(_)
FirstFound(results) ==
    IF results = <<>> THEN NullObj
    ELSE IF Head(results) # NullObj THEN Head(results)
    ELSE FirstFound(Tail(results))

\* node.children || []
Children(node, key) ==
    IF key \in DOMAIN node THEN node[key] ELSE <<>>

searchVillage(village, parish, subcounty, district, c) ==
    IF village["code"] = c /\ TestPattern(4, c)
    THEN [type |-> "village", code |-> village["code"],
          name |-> village["name"], parish |-> parish["name"],
          subcounty |-> subcounty["name"], district |-> district["name"]]
    ELSE NullObj

searchParish(parish, subcounty, district, c) ==
    IF parish["code"] = c /\ TestPattern(3, c)
    THEN [type |-> "parish", code |-> parish["code"],
          name |-> parish["name"], subcounty |-> subcounty["name"],
          district |-> district["name"]]
    ELSE LET villages == Children(parish, "villages")
         IN  FirstFound([k \in 1..Len(villages) |->
                 searchVillage(villages[k], parish, subcounty, district, c)])

searchSubcounty(subcounty, district, c) ==
    IF subcounty["code"] = c /\ TestPattern(2, c)
    THEN [type |-> "subcounty", code |-> subcounty["code"],
          name |-> subcounty["name"], district |-> district["name"]]
    ELSE LET parishes == Children(subcounty, "parishes")
         IN  FirstFound([k \in 1..Len(parishes) |->
                 searchParish(parishes[k], subcounty, district, c)])

searchDistrict(district, c) ==
    IF district["code"] = c /\ TestPattern(1, c)
    THEN [type |-> "district", code |-> district["code"],
          name |-> district["name"]]
    ELSE LET subcounties == Children(district, "subcounties")
         IN  FirstFound([k \in 1..Len(subcounties) |->
                 searchSubcounty(subcounties[k], district, c)])

getLocationByCode(locs, c) ==
    IF "districts" \notin DOMAIN locs \/ ~Truthy(c)
    THEN NullObj
    ELSE FirstFound([k \in 1..Len(locs["districts"]) |->
             searchDistrict(locs["districts"][k], c)])

\* A node of the locations document without a children property, and one
\* with it.
Leaf(c, n) == ("code" :> c) @@ ("name" :> n)
Node(c, n, key, kids) == ("code" :> c) @@ ("name" :> n) @@ (key :> kids)

D1       == CodeOf(<<One>>)
D2       == CodeOf(<<Two>>)
D1S1     == CodeOf(<<One, One>>)
D1S1P1   == CodeOf(<<One, One, One>>)
D1S1P1V1 == CodeOf(<<One, One, One, One>>)

\* Villages: one coded as a village, one carrying a district-shaped code.
VillagePool ==
    { Leaf(D1S1P1V1, <<"v">>), Leaf(D1, <<"w">>) }

\* Parishes: coded as a parish or with a subcounty-shaped code; without a
\* villages property, with one village, or with two.
ParishPool ==
    { Leaf(c, <<"p">>) : c \in {D1S1P1, D1S1} }
    \cup { Node(c, <<"p">>, "villages", vs) :
              c \in {D1S1P1, D1S1},
              vs \in {<<v>> : v \in VillagePool}
                       \cup {<<Leaf(D1, <<"w">>), Leaf(D1S1P1V1, <<"v">>)>>} }

SubcountyPool ==
    { Leaf(c, <<"s">>) : c \in {D1S1, D1} }
    \cup { Node(c, <<"s">>, "parishes", ps) :
              c \in {D1S1, D1},
              ps \in {<<>>} \cup {<<q>> : q \in ParishPool} }

\* Districts: bare ones under each code shape, and districts K (code D1)
\* and M (code D2) holding one subcounty, plus a district whose own code is
\* subcounty-shaped.
DistrictPool ==
    { Leaf(c, <<"B">>) : c \in {D1, D2, D1S1} }
    \cup { Node(D1, <<"K">>, "subcounties", <<sc>>) : sc \in SubcountyPool }
    \cup { Node(D2, <<"M">>, "subcounties",
                <<Leaf(D1S1, <<"s">>)>>),
           Node(D1S1, <<"X">>, "subcounties", <<Leaf(D1S1, <<"s">>)>>) }

\* Largest number of districts in the locations document.
MaxDistricts == 2

\* The documents: the empty object loadLocations returns when the file
\* cannot be read, and trees of districts.
LocationDocs ==
    { <<>> }
    \cup { "districts" :> ds : ds \in SeqsUpTo(DistrictPool, MaxDistricts) }

\* Queried codes: one of each level, codes no node has, the empty string
\* and strings of no pattern.
QueryCodes ==
    { <<>>, D1, D2, D1S1, D1S1P1, D1S1P1V1,
      CodeOf(<<Twelve>>),
      <<"X", "X", "9", "9">>,
      <<"D", "1", "S">>,
      <<"d", "1">> }

InitResolver ==
    /\ pc = "ready"
    /\ locations \in LocationDocs
    /\ code \in QueryCodes
    /\ found = NullObj
    /\ facilities = <<>> /\ location = <<>> /\ filtered = <<>>
    /\ csvContent = <<>> /\ parsed = <<>>
    /\ line = <<>> /\ values = <<>> /\ fields = <<>> /\ wrapped = <<>>
    /\ category = "" /\ metrics = <<>> /\ breakdown = <<>>
    /\ argCurrent = 0 /\ argTarget = 0 /\ returnedSeverity = ""
    /\ benchmarkTables = <<>> /\ held = <<>>
    /\ dataCache = <<>> /\ calls = <<>>
    /\ fetchCount = <<>> /\ parseCount = <<>>
    /\ argValue = <<>> /\ returnedYes = FALSE
    /\ schema = <<>>
    /\ clock = 0 /\ rateLimitMap = <<>> /\ answered = <<>>
    /\ requestIP = "" /\ returnedLimited = FALSE
    /\ watchFrom = 0 /\ watchIP = "" /\ watchCount = 0
    /\ aiResponse = <<>> /\ givenResponse = <<>> /\ returnedResponse = <<>>

GetLocationByCode ==
    /\ pc = "ready"
    /\ found' = getLocationByCode(locations, code)
    /\ pc' = "done"
    /\ UNCHANGED <<locations, code, filterVars, csvVars, lineVars,
                   metricsVars,
                   severityVars,
                   aliasVars,
                   loaderVars,
                   yesVars,
                   schemaVars,
                   rateVars,
                   responseVars>>

NextResolver == GetLocationByCode

SpecResolver == InitResolver /\ [][NextResolver]_vars

-----------------------------------------------------------------------------
(* Properties of getLocationByCode *)

\* The positions of the characters of s that are not digits.
LetterPos(s) == {i \in 1..Len(s) : s[i] \notin Digits}

\* s has the shape of a code of level n: n letters, the k-th of them the
\* letter of level k, the first at position 1, each followed by a digit.
HasLevel(s, n) ==
    /\ Cardinality(LetterPos(s)) = n
    /\ n >= 1 => 1 \in LetterPos(s)
    /\ \A i \in LetterPos(s) :
          /\ i < Len(s) /\ s[i + 1] \in Digits
          /\ s[i] = LevelLetter[Cardinality({j \in LetterPos(s) : j <= i})]

ChildKey == <<"districts", "subcounties", "parishes", "villages">>

\* The children of a node of depth d (depth 0 is the document).
KidsOf(node, d) ==
    IF ChildKey[d + 1] \in DOMAIN node THEN node[ChildKey[d + 1]] ELSE <<>>

\* The node reached from the document by the index path ip.
RECURSIVE NodeAt(_)
NodeAt(ip) ==
    IF ip = <<>> THEN locations
    ELSE KidsOf(NodeAt(SubSeq(ip, 1, Len(ip) - 1)), Len(ip) - 1)[ip[Len(ip)]]

\* The index paths of the nodes of depth d of the document.
RECURSIVE IndexPaths(_)
IndexPaths(d) ==
    IF d = 0 THEN {<<>>}
    ELSE UNION { {Append(ip, k) : k \in 1..Len(KidsOf(NodeAt(ip), d - 1))} :
                   ip \in IndexPaths(d - 1) }

AllIndexPaths == UNION {IndexPaths(d) : d \in 1..4}

TypeName == <<"district", "subcounty", "parish", "village">>

\* The description of the node at ip: its type by depth, its own code and
\* name, and the names of the nodes above it on its path from the root.
Describe(ip) ==
    LET n    == NodeAt(ip)
        base == [type |-> TypeName[Len(ip)], code |-> n["code"],
                 name |-> n["name"]]
        dn   == "district" :> NodeAt(SubSeq(ip, 1, 1))["name"]
        sn   == "subcounty" :> NodeAt(SubSeq(ip, 1, 2))["name"]
        pn   == "parish" :> NodeAt(SubSeq(ip, 1, 3))["name"]
    IN  CASE Len(ip) = 1 -> base
          [] Len(ip) = 2 -> base @@ dn
          [] Len(ip) = 3 -> base @@ dn @@ sn
          [] Len(ip) = 4 -> base @@ dn @@ sn @@ pn

\* The nodes whose code is the queried code and whose depth is the level
\* of the code's shape.
MatchingNodes ==
    {ip \in AllIndexPaths :
        NodeAt(ip)["code"] = code /\ HasLevel(code, Len(ip))}

\* ---- C4 --------------------------------------------------------------
\* C4: getLocationByCode returns a description only when some node's code
\* equals the queried code and the level of the code's shape equals the
\* node's depth, and then type, name and ancestor names are those of that
\* node's root path; otherwise (code not in the tree, code of no shape,
\* shape and depth differing, empty code, no districts) it returns null.
C4_ResolveByCodeAndDepth ==
    pc = "done" =>
        IF MatchingNodes = {}
        THEN found = NullObj
        ELSE \E ip \in MatchingNodes : found = Describe(ip)

\* A lookup refused although a node carries the queried code, at a depth
\* that is not the level of the code's shape.
C4_Witness ==
    /\ pc = "done" /\ found = NullObj
    /\ \E ip \in AllIndexPaths : NodeAt(ip)["code"] = code
    /\ \E n \in 1..4 : HasLevel(code, n)

\* A village resolved with its parish, subcounty and district names.
C4_WitnessVillage ==
    /\ pc = "done" /\ found # NullObj
    /\ found["type"] = "village" /\ found["district"] = <<"K">>

-----------------------------------------------------------------------------
(* parseCSVLine and parseCSV *)

Quote   == "\""
Comma   == ","
Newline == "\n"

\* The characters String.prototype.trim removes, as far as they occur here.
WhiteSpace == {" ", "\n", "\t", "\r"}

RECURSIVE TrimStart(_)
TrimStart(s) ==
    IF s # <<>> /\ Head(s) \in WhiteSpace THEN TrimStart(Tail(s)) ELSE s

RECURSIVE TrimEnd(_)
TrimEnd(s) ==
    IF s # <<>> /\ s[Len(s)] \in WhiteSpace
    THEN TrimEnd(SubSeq(s, 1, Len(s) - 1))
    ELSE s

\* String.prototype.trim
Trim(s) == TrimEnd(TrimStart(s))

\* s.split('\n'): the pieces between newlines; one piece, s itself, when
\* s holds no newline (also for the empty string).
RECURSIVE SplitLines(_)
SplitLines(s) ==
    IF \A i \in 1..Len(s) : s[i] # Newline THEN <<s>>
    ELSE LET i == CHOOSE k \in 1..Len(s) :
                      s[k] = Newline /\ \A j \in 1..(k - 1) : s[j] # Newline
         IN  <<SubSeq(s, 1, i - 1)>> \o SplitLines(SubSeq(s, i + 1, Len(s)))

\* The test of the escaped-quote branch: inside quotes and the next
\* character is a quote too.
isEscapedQuote_never(inQuotes, ln, i) == FALSE

isEscapedQuote(inQuotes, ln, i) ==
    inQuotes /\ i + 1 <= Len(ln) /\ ln[i + 1] = Quote

\* The for loop of parseCSVLine from position i on, and the final push.
RECURSIVE scanLine(_, _, _, _, _)
scanLine(ln, i, current, inQuotes, vals) ==
    IF i > Len(ln) THEN Append(vals, current)
    ELSE IF ln[i] = Quote
    THEN IF isEscapedQuote(inQuotes, ln, i)
         THEN scanLine(ln, i + 2, Append(current, Quote), inQuotes, vals)
         ELSE scanLine(ln, i + 1, current, ~inQuotes, vals)
    ELSE IF ln[i] = Comma /\ ~inQuotes
    THEN scanLine(ln, i + 1, <<>>, inQuotes, Append(vals, current))
    ELSE scanLine(ln, i + 1, Append(current, ln[i]), inQuotes, vals)

parseCSVLine(ln) == scanLine(ln, 1, <<>>, FALSE, <<>>)

\* !lines[i].trim()
isBlankLine_never(ln) == FALSE

isBlankLine(ln) == Trim(ln) = <<>>

\* values[index]?.trim() || ''
cellValue_noDefault(vals, index) ==
    IF index <= Len(vals) THEN Trim(vals[index]) ELSE Undefined

cellValue(vals, index) ==
    IF index <= Len(vals) /\ Truthy(Trim(vals[index]))
    THEN Trim(vals[index])
    ELSE <<>>

\* The row object built by headers.forEach: one key per trimmed header;
\* a header that occurs again overwrites the earlier assignment.
buildRow(headers, vals) ==
    [key \in {Trim(headers[j]) : j \in 1..Len(headers)} |->
        LET last == CHOOSE j \in 1..Len(headers) :
                        /\ Trim(headers[j]) = key
                        /\ \A k \in (j + 1)..Len(headers) :
                               Trim(headers[k]) # key
        IN  cellValue(vals, last)]

\* The loop over lines[i], i >= 1 (0-based), of parseCSV.
RECURSIVE parseRows(_, _, _)
parseRows(lines, i, headers) ==
    IF i > Len(lines) THEN <<>>
    ELSE IF isBlankLine(lines[i]) THEN parseRows(lines, i + 1, headers)
    ELSE <<buildRow(headers, parseCSVLine(lines[i]))>>
             \o parseRows(lines, i + 1, headers)

parseCSV(content) ==
    LET lines == SplitLines(Trim(content))
    IN  IF Len(lines) = 0 THEN <<>>
        ELSE parseRows(lines, 2, parseCSVLine(lines[1]))

\* Characters of the texts parseCSV is tried on.
CsvAlphabet == {"a", "b", Comma, Quote, " ", Newline}

\* Largest length of a text given to parseCSV.
MaxContentLen == 5

InitCSV ==
    /\ pc = "ready"
    /\ csvContent \in SeqsUpTo(CsvAlphabet, MaxContentLen)
    /\ parsed = <<>>
    /\ facilities = <<>> /\ location = <<>> /\ filtered = <<>>
    /\ locations = <<>> /\ code = <<>> /\ found = <<>>
    /\ line = <<>> /\ values = <<>> /\ fields = <<>> /\ wrapped = <<>>
    /\ category = "" /\ metrics = <<>> /\ breakdown = <<>>
    /\ argCurrent = 0 /\ argTarget = 0 /\ returnedSeverity = ""
    /\ benchmarkTables = <<>> /\ held = <<>>
    /\ dataCache = <<>> /\ calls = <<>>
    /\ fetchCount = <<>> /\ parseCount = <<>>
    /\ argValue = <<>> /\ returnedYes = FALSE
    /\ schema = <<>>
    /\ clock = 0 /\ rateLimitMap = <<>> /\ answered = <<>>
    /\ requestIP = "" /\ returnedLimited = FALSE
    /\ watchFrom = 0 /\ watchIP = "" /\ watchCount = 0
    /\ aiResponse = <<>> /\ givenResponse = <<>> /\ returnedResponse = <<>>

ParseCSV ==
    /\ pc = "ready"
    /\ parsed' = parseCSV(csvContent)
    /\ pc' = "done"
    /\ UNCHANGED <<csvContent, filterVars, resolverVars, lineVars,
                   metricsVars,
                   severityVars,
                   aliasVars,
                   loaderVars,
                   yesVars,
                   schemaVars,
                   rateVars,
                   responseVars>>

NextCSV == ParseCSV

SpecCSV == InitCSV /\ [][NextCSV]_vars

-----------------------------------------------------------------------------
(* Lines written from field values, and parseCSVLine applied to them *)

\* The text of one field as a CSV writer puts it on a line: as it is, or
\* wrapped in double quotes with every double quote inside it doubled.
RECURSIVE DoubleQuotes(_)
DoubleQuotes(s) ==
    IF s = <<>> THEN <<>>
    ELSE (IF Head(s) = Quote THEN <<Quote, Quote>> ELSE <<Head(s)>>)
             \o DoubleQuotes(Tail(s))

WriteField(f, wrap) ==
    IF wrap THEN <<Quote>> \o DoubleQuotes(f) \o <<Quote>> ELSE f

\* The fields joined by commas.
RECURSIVE WriteLine(_, _)
WriteLine(fs, wraps) ==
    IF Len(fs) = 1 THEN WriteField(fs[1], wraps[1])
    ELSE WriteField(fs[1], wraps[1]) \o <<Comma>>
             \o WriteLine(Tail(fs), Tail(wraps))

\* A field may go unwrapped only if it holds no comma and no quote.
MayGoBare(f) == \A i \in 1..Len(f) : f[i] \notin {Comma, Quote}

FieldAlphabet == {"a", Comma, Quote}

\* Largest length of a field, and largest number of fields on a line.
MaxFieldLen == 2
MaxFields   == 2

\* The data line of the documented example: "Bukasa, A","5".
BukasaFields ==
    << <<"B", "u", "k", "a", "s", "a", ",", " ", "A">>, <<"5">> >>

FieldLists ==
    { fs \in SeqsUpTo(SeqsUpTo(FieldAlphabet, MaxFieldLen), MaxFields) :
        fs # <<>> }
    \cup { BukasaFields }

InitCSVLine ==
    /\ pc = "ready"
    /\ fields \in FieldLists
    /\ wrapped \in [1..Len(fields) -> BOOLEAN]
    /\ \A i \in 1..Len(fields) : ~wrapped[i] => MayGoBare(fields[i])
    /\ line = WriteLine(fields, wrapped)
    /\ values = <<>>
    /\ facilities = <<>> /\ location = <<>> /\ filtered = <<>>
    /\ locations = <<>> /\ code = <<>> /\ found = <<>>
    /\ csvContent = <<>> /\ parsed = <<>>
    /\ category = "" /\ metrics = <<>> /\ breakdown = <<>>
    /\ argCurrent = 0 /\ argTarget = 0 /\ returnedSeverity = ""
    /\ benchmarkTables = <<>> /\ held = <<>>
    /\ dataCache = <<>> /\ calls = <<>>
    /\ fetchCount = <<>> /\ parseCount = <<>>
    /\ argValue = <<>> /\ returnedYes = FALSE
    /\ schema = <<>>
    /\ clock = 0 /\ rateLimitMap = <<>> /\ answered = <<>>
    /\ requestIP = "" /\ returnedLimited = FALSE
    /\ watchFrom = 0 /\ watchIP = "" /\ watchCount = 0
    /\ aiResponse = <<>> /\ givenResponse = <<>> /\ returnedResponse = <<>>

ParseCSVLine ==
    /\ pc = "ready"
    /\ values' = parseCSVLine(line)
    /\ pc' = "done"
    /\ UNCHANGED <<line, fields, wrapped, filterVars, resolverVars, csvVars,
                   metricsVars,
                   severityVars,
                   aliasVars,
                   loaderVars,
                   yesVars,
                   schemaVars,
                   rateVars,
                   responseVars>>

NextCSVLine == ParseCSVLine

SpecCSVLine == InitCSVLine /\ [][NextCSVLine]_vars

\* ---- C6 --------------------------------------------------------------
\* C6: parseCSVLine honours quoting: of a line written from field values,
\* each either bare or wrapped in double quotes with its quotes doubled, it
\* returns exactly those values: a comma inside quotes does not separate,
\* a doubled quote inside a quoted field is one quote character, and the
\* enclosing quotes are not part of the value.
C6_QuotedFieldsRoundTrip ==
    pc = "done" => values = fields

\* The documented example: "Bukasa, A","5" gives Bukasa, A and 5.
C6_Witness ==
    /\ pc = "done"
    /\ line = <<Quote, "B", "u", "k", "a", "s", "a", ",", " ", "A", Quote,
                Comma, Quote, "5", Quote>>
    /\ values = BukasaFields

\* A wrapped field holding a comma and a quote, next to a bare field.
C6_WitnessEscapes ==
    /\ pc = "done" /\ Len(fields) = 2
    /\ fields[1] = <<Comma, Quote>> /\ wrapped[1] /\ ~wrapped[2]
    /\ values = fields

-----------------------------------------------------------------------------
(* Properties of parseCSV *)

\* The positions of the newlines of the text.
NewlinePos == {i \in 1..Len(csvContent) : csvContent[i] = Newline}

NumRawLines == Cardinality(NewlinePos) + 1

\* The position of the m-th newline.
NthNewline(m) ==
    CHOOSE i \in NewlinePos : Cardinality({j \in NewlinePos : j <= i}) = m

\* The k-th line of the text as given, untrimmed.
RawLine(k) ==
    SubSeq(csvContent,
           IF k = 1 THEN 1 ELSE NthNewline(k - 1) + 1,
           IF k = NumRawLines THEN Len(csvContent) ELSE NthNewline(k) - 1)

IsBlank(s) == \A i \in 1..Len(s) : s[i] \in WhiteSpace

\* s without its leading and trailing white space.
Stripped(s) ==
    LET solid == {i \in 1..Len(s) : s[i] \notin WhiteSpace}
    IN  IF solid = {} THEN <<>>
        ELSE SubSeq(s, CHOOSE i \in solid : \A j \in solid : i <= j,
                       CHOOSE i \in solid : \A j \in solid : j <= i)

\* The line numbers of the non-blank lines after the first.
DataLineNumbers == {k \in 2..NumRawLines : ~IsBlank(RawLine(k))}

\* The n-th non-blank line after the first.
DataLine(n) ==
    RawLine(CHOOSE k \in DataLineNumbers :
                Cardinality({j \in DataLineNumbers : j <= k}) = n)

\* The first line is a header: it is not blank.
HasHeader == ~IsBlank(RawLine(1))

HeaderFields == parseCSVLine(RawLine(1))

HeaderKeys == {Stripped(HeaderFields[j]) : j \in 1..Len(HeaderFields)}

\* Column j is the last one carrying its header name.
IsLastOfItsName(j) ==
    \A k \in (j + 1)..Len(HeaderFields) :
        Stripped(HeaderFields[k]) # Stripped(HeaderFields[j])

\* ---- C5 --------------------------------------------------------------
\* C5: for a text whose first line is a (non-blank) header H followed by N
\* non-blank data lines, with blank lines anywhere after the header,
\* parseCSV returns exactly N records, the n-th made from the n-th
\* non-blank data line, each with the trimmed entries of H as its key set;
\* blank lines produce no record.
C5_OneRecordPerDataLine ==
    (pc = "done" /\ HasHeader) =>
        /\ Len(parsed) = Cardinality(DataLineNumbers)
        /\ \A n \in 1..Len(parsed) :
              /\ DOMAIN parsed[n] = HeaderKeys
              /\ LET cells == parseCSVLine(DataLine(n))
                 IN  \A j \in 1..Len(HeaderFields) :
                        (IsLastOfItsName(j) /\ j <= Len(cells)) =>
                            parsed[n][Stripped(HeaderFields[j])]
                                = Stripped(cells[j])

\* A text with a blank line between the header and a data line, parsed to
\* one record.
C5_Witness ==
    /\ pc = "done" /\ HasHeader
    /\ NumRawLines = 3 /\ IsBlank(RawLine(2)) /\ ~IsBlank(RawLine(3))
    /\ Len(parsed) = 1

\* ---- C7 --------------------------------------------------------------
\* C7: a data line with fewer fields than the header still gives a record
\* with every header key, the missing trailing ones mapped to the empty
\* string; no line is rejected whatever its number of fields.
C7_ShortRowsPadded ==
    (pc = "done" /\ HasHeader) =>
        /\ Len(parsed) = Cardinality(DataLineNumbers)
        /\ \A n \in 1..Len(parsed) :
              LET cells == parseCSVLine(DataLine(n))
              IN  Len(cells) < Len(HeaderFields) =>
                     /\ DOMAIN parsed[n] = HeaderKeys
                     /\ \A j \in (Len(cells) + 1)..Len(HeaderFields) :
                            IsLastOfItsName(j) =>
                                parsed[n][Stripped(HeaderFields[j])] = <<>>

\* A two-column header and a one-field data line: the record has both keys
\* and the second is empty.
C7_Witness ==
    /\ pc = "done" /\ HasHeader
    /\ Len(HeaderFields) = 2 /\ Cardinality(HeaderKeys) = 2
    /\ Len(parsed) = 1
    /\ Len(parseCSVLine(DataLine(1))) = 1
    /\ parsed[1][Stripped(HeaderFields[1])] # <<>>
    /\ parsed[1][Stripped(HeaderFields[2])] = <<>>

\* A data line with more fields than the header is kept as a record too.
C7_WitnessLongRow ==
    /\ pc = "done" /\ HasHeader
    /\ Len(parsed) = 1
    /\ Len(parseCSVLine(DataLine(1))) > Len(HeaderFields)

-----------------------------------------------------------------------------
(* Metrics helpers: isYes, parseNumber, toFixed, getSeverity *)

UpperCase == <<"A", "B", "C", "D", "E", "F", "G", "H", "I", "J", "K", "L",
               "M", "N", "O", "P", "Q", "R", "S", "T", "U", "V", "W", "X",
               "Y", "Z">>
LowerCase == <<"a", "b", "c", "d", "e", "f", "g", "h", "i", "j", "k", "l",
               "m", "n", "o", "p", "q", "r", "s", "t", "u", "v", "w", "x",
               "y", "z">>

\* String.prototype.toLowerCase on the letters A-Z.
ToLowerChar(c) ==
    IF \E i \in 1..26 : UpperCase[i] = c
    THEN LowerCase[CHOOSE i \in 1..26 : UpperCase[i] = c]
    ELSE c

ToLower(s) == [i \in 1..Len(s) |-> ToLowerChar(s[i])]

\* The affirmative tokens of isYes.
YesTokens ==
    { <<"y", "e", "s">>, <<"y">>, <<"t", "r", "u", "e">>, <<"1">> }

isYes_noFold(value) ==
    IF ~Truthy(value) THEN FALSE
    ELSE value \in YesTokens

isYes(value) ==
    IF ~Truthy(value) THEN FALSE
    ELSE Trim(ToLower(value)) \in YesTokens

\* Numbers are held in tenths: 125 is 12.5.  This is the unit of every
\* sum, of every value toFixed(1) formats, and of parsed field values.
Scale == 10

DigitValue(c) == CHOOSE d \in 0..9 : <<"0", "1", "2", "3", "4", "5", "6",
                                       "7", "8", "9">>[d + 1] = c

\* replace(/,/g, '')
RemoveCommas(s) == SelectSeq(s, LAMBDA c : c # Comma)

\* The value of the digits of s from position i up to the first non-digit,
\* continuing from acc.
RECURSIVE DigitsValue(_, _, _)
DigitsValue(s, i, acc) ==
    IF i <= Len(s) /\ s[i] \in Digits
    THEN DigitsValue(s, i + 1, 10 * acc + DigitValue(s[i]))
    ELSE acc

\* The numbers Infinity and NaN.  Infinity is a value above every finite
\* value of the model; -Infinity is its negation.  NaN is a value below
\* zero that no sum or quotient of the model takes, so that, as in
\* JavaScript, "NaN > x" is false for every x >= 0.
Infinity == 100000000
NaN == -1

InfinityLiteral == <<"I", "n", "f", "i", "n", "i", "t", "y">>

\* parseFloat: leading white space, an optional sign, then either the
\* literal Infinity or digits and an optional fraction are read and
\* whatever follows is ignored; with neither at that place the result is
\* NaN.  The value is in tenths, so the first digit of the fraction is
\* kept.  Exponents are not covered.
parseFloat(str) ==
    LET s      == TrimStart(str)
        signed == s # <<>> /\ s[1] \in {"-", "+"}
        sign   == IF s # <<>> /\ s[1] = "-" THEN -1 ELSE 1
        first  == IF signed THEN 2 ELSE 1
        after  == SkipDigits(s, first)
        hasInt == after > first
        hasDot == after <= Len(s) /\ s[after] = "."
        hasFrac == hasDot /\ after + 1 <= Len(s) /\ s[after + 1] \in Digits
        whole  == DigitsValue(s, first, 0)
        tenth  == IF hasFrac THEN DigitValue(s[after + 1]) ELSE 0
        isInfinity ==
            /\ Len(s) >= first + Len(InfinityLiteral) - 1
            /\ SubSeq(s, first, first + Len(InfinityLiteral) - 1)
                 = InfinityLiteral
    IN  IF isInfinity THEN [nan |-> FALSE, v |-> sign * Infinity]
        ELSE IF ~hasInt /\ ~hasFrac THEN [nan |-> TRUE, v |-> 0]
        ELSE [nan |-> FALSE, v |-> sign * (Scale * whole + tenth)]

parseNumber(value) ==
    IF ~Truthy(value) THEN 0
    ELSE LET num == parseFloat(RemoveCommas(value))
         IN  IF num.nan THEN 0 ELSE num.v

\* (num / den).toFixed(1) for num >= 0 and den > 0, in tenths: the nearest
\* tenth, the larger one when two are equally near.
toFixed1(num, den) ==
    IF num = Infinity THEN (IF den = Infinity THEN NaN ELSE Infinity)
    ELSE IF den = Infinity THEN 0
    ELSE (2 * Scale * num + den) \div (2 * den)

\* (count / total * 100).toFixed(1), in tenths.
percentage_truncated(count, total) ==
    IF count = Infinity THEN toFixed1(Infinity, total)
    ELSE IF total = Infinity THEN 0
    ELSE (Scale * 100 * count) \div total

percentage(count, total) ==
    IF count = Infinity THEN toFixed1(Infinity, total)
    ELSE toFixed1(100 * count, total)

\* getSeverity(current, target), both arguments in the same unit.
\* ratio = current / target; the comparisons are made by cross
\* multiplication.  A zero target gives Infinity, -Infinity or NaN.
\* getSeverity with the ratio taken as target / current.
getSeverity_targetOverCurrent(current, target) ==
    IF current > 0
    THEN IF 2 * target < current THEN "critical"
         ELSE IF 4 * target < 3 * current THEN "high"
         ELSE IF 10 * target < 9 * current THEN "medium"
         ELSE "low"
    ELSE "low"

getSeverity_inclusive(current, target) ==
    IF target > 0
    THEN IF 2 * current <= target THEN "critical"
         ELSE IF 4 * current <= 3 * target THEN "high"
         ELSE IF 10 * current <= 9 * target THEN "medium"
         ELSE "low"
    ELSE "low"

getSeverity(current, target) ==
    IF target > 0
    THEN IF 2 * current < target THEN "critical"
         ELSE IF 4 * current < 3 * target THEN "high"
         ELSE IF 10 * current < 9 * target THEN "medium"
         ELSE "low"
    ELSE IF target < 0
    THEN IF 2 * current > target THEN "critical"
         ELSE IF 4 * current > 3 * target THEN "high"
         ELSE IF 10 * current > 9 * target THEN "medium"
         ELSE "low"
    ELSE IF current < 0 THEN "critical" ELSE "low"

\* WHO and national benchmarks.
BENCHMARKS ==
    [ education |->
        [ pupil_teacher_ratio_primary   |-> 40,
          pupil_teacher_ratio_secondary |-> 30,
          pupil_classroom_ratio         |-> 45,
          pupil_toilet_stance_ratio     |-> 40,
          electricity_target            |-> 100,
          water_target                  |-> 100,
          ict_lab_target                |-> 50 ],
      health |->
        [ population_per_hc2      |-> 5000,
          population_per_hc3      |-> 20000,
          population_per_hc4      |-> 100000,
          population_per_hospital |-> 500000,
          electricity_target      |-> 100,
          water_target            |-> 100 ] ]

\* facility.a || facility.b || ... for the field names in order: the
\* first value that is truthy, else the value of the last name.
RECURSIVE FirstOf_lastWins(_, _)
FirstOf_lastWins(facility, names) ==
    IF Len(names) = 1 THEN Get(facility, names[1])
    ELSE Or(FirstOf_lastWins(facility, Tail(names)), Get(facility, names[1]))

RECURSIVE FirstOf(_, _)
FirstOf(facility, names) ==
    IF Len(names) = 1 THEN Get(facility, names[1])
    ELSE Or(Get(facility, names[1]), FirstOf(facility, Tail(names)))

\* The number of the given facilities that satisfy P.
CountWhere(fs, P(_)) == Cardinality({i \in 1..Len(fs) : P(fs[i])})

\* The running total of "total += x" without the test x > 0.
RECURSIVE SumPositive_unguarded(_)
SumPositive_unguarded(xs) ==
    IF xs = <<>> THEN 0
    ELSE Head(xs) + SumPositive_unguarded(Tail(xs))

\* The running total of "if (x > 0) total += x" over a list of numbers.
RECURSIVE SumPositive(_)
SumPositive(xs) ==
    IF xs = <<>> THEN 0
    ELSE LET rest == SumPositive(Tail(xs))
         IN  IF Head(xs) <= 0 THEN rest
             ELSE IF Head(xs) = Infinity \/ rest = Infinity THEN Infinity
             ELSE Head(xs) + rest

\* The names byLevel = {} inherits from Object.prototype as functions.
InheritedNames ==
    {
      <<"c", "o", "n", "s", "t", "r", "u", "c", "t", "o", "r">>,
      <<"t", "o", "S", "t", "r", "i", "n", "g">>,
      <<"t", "o", "L", "o", "c", "a", "l", "e", "S", "t", "r", "i", "n", "g">>,
      <<"v", "a", "l", "u", "e", "O", "f">>,
      <<"h", "a", "s", "O", "w", "n", "P", "r", "o", "p", "e", "r", "t", "y">>,
      <<"i", "s", "P", "r", "o", "t", "o", "t", "y", "p", "e", "O", "f">>,
      <<"p", "r", "o", "p", "e", "r", "t", "y", "I", "s", "E", "n", "u", "m", "e", "r", "a", "b", "l", "e">>,
      <<"_", "_", "d", "e", "f", "i", "n", "e", "G", "e", "t", "t", "e", "r", "_", "_">>,
      <<"_", "_", "d", "e", "f", "i", "n", "e", "S", "e", "t", "t", "e", "r", "_", "_">>,
      <<"_", "_", "l", "o", "o", "k", "u", "p", "G", "e", "t", "t", "e", "r", "_", "_">>,
      <<"_", "_", "l", "o", "o", "k", "u", "p", "S", "e", "t", "t", "e", "r", "_", "_">> }

\* The name whose assignment sets the prototype instead of a property.
ProtoName == <<"_", "_", "p", "r", "o", "t", "o", "_", "_">>

\* The number of occurrences of l among the labels.
Occurrences(labels, l) == Cardinality({i \in 1..Len(labels) : labels[i] = l})

\* The object built by "obj[label] = (obj[label] || 0) + 1" over the
\* labels, in order, obj being {} at first.  A label that obj has not got
\* reads as undefined and is set to 1, and later to one more each time.
\* A label that is an inherited name reads as a function, which is truthy:
\* the function + 1 is a string, stored under the label and lengthened by
\* "1" at each later occurrence; it is held here as NaN, not being a
\* number.  The label __proto__ reads as Object.prototype, and assigning
\* the resulting string to it is ignored: it never becomes a property.
CountByLabel(labels) ==
    [l \in {labels[i] : i \in 1..Len(labels)} \ {ProtoName} |->
        IF l \in InheritedNames THEN NaN ELSE Occurrences(labels, l)]

Unknown == <<"U", "n", "k", "n", "o", "w", "n">>

\* An object without properties, and obj when cond holds, else nothing, for
\* properties that are assigned under a condition.
EmptyObject == <<>>
When(cond, obj) == IF cond THEN obj ELSE EmptyObject

-----------------------------------------------------------------------------
(* calculateEducationMetrics *)

calculateEducationMetrics(fs) ==
    LET total == Len(fs)
        flag(names) == CountWhere(fs, LAMBDA f : isYes(FirstOf(f, names)))
        sum(names) ==
            SumPositive([i \in 1..total |-> parseNumber(FirstOf(fs[i], names))])
        \* forEach: counts by level and ownership
        byLevel == CountByLabel([i \in 1..total |->
                       Or(FirstOf(fs[i], <<"level", "Level">>), Unknown)])
        byOwnership == CountByLabel([i \in 1..total |->
                       Or(FirstOf(fs[i], <<"ownership", "Ownership">>), Unknown)])
        \* forEach: infrastructure
        withElectricity == flag(<<"electricity_available", "Electricity">>)
        withWater == flag(<<"water_available", "Water">>)
        withICTLab == flag(<<"ict_lab_available", "ict_lab", "ICT_Lab">>)
        withHandwashing == flag(<<"handwashing_available">>)
        withDisabilityAccessibleToilets ==
            flag(<<"disability_accessible_toilets">>)
        withSeparateGenderToilets == flag(<<"separate_gender_toilets">>)
        \* forEach: enrollment
        totalLearners ==
            sum(<<"total_learners", "Total_Learners", "enrollment">>)
        totalBoys == sum(<<"boys_count">>)
        totalGirls == sum(<<"girls_count">>)
        totalTeachers ==
            sum(<<"total_teachers", "Total_Teachers", "teachers">>)
        totalMaleTeachers == sum(<<"male_teachers">>)
        totalFemaleTeachers == sum(<<"female_teachers">>)
        totalClassrooms ==
            sum(<<"total_classrooms", "Total_Classrooms", "classrooms">>)
        totalDisabledLearners == sum(<<"disabled_learners">>)
        permanentClassrooms == sum(<<"permanent_classrooms">>)
        semiPermanentClassrooms == sum(<<"semi_permanent_classrooms">>)
        temporaryClassrooms == sum(<<"temporary_classrooms">>)
        \* forEach: teacher qualifications
        diplomaTeachers == sum(<<"diploma_teachers">>)
        degreeTeachers == sum(<<"degree_teachers">>)
        certificateTeachers == sum(<<"certificate_teachers">>)
        govtPayrollTeachers == sum(<<"govt_payroll_teachers">>)
        \* percentages, each group under its guard
        infrastructure ==
            [ withElectricity |-> withElectricity,
              withWater |-> withWater,
              withICTLab |-> withICTLab,
              withHandwashing |-> withHandwashing,
              withDisabilityAccessibleToilets |->
                  withDisabilityAccessibleToilets,
              withSeparateGenderToilets |-> withSeparateGenderToilets ]
            @@ When(total > 0,
                 [ electricityPercentage |->
                       percentage(withElectricity, total),
                   waterPercentage |-> percentage(withWater, total),
                   ictLabPercentage |-> percentage(withICTLab, total),
                   handwashingPercentage |->
                       percentage(withHandwashing, total),
                   disabilityAccessibleToiletsPercentage |->
                       percentage(withDisabilityAccessibleToilets, total),
                   separateGenderToiletsPercentage |->
                       percentage(withSeparateGenderToilets, total) ])
        enrollment ==
            [ totalLearners |-> totalLearners,
              totalBoys |-> totalBoys,
              totalGirls |-> totalGirls,
              totalTeachers |-> totalTeachers,
              totalMaleTeachers |-> totalMaleTeachers,
              totalFemaleTeachers |-> totalFemaleTeachers,
              totalClassrooms |-> totalClassrooms,
              totalDisabledLearners |-> totalDisabledLearners,
              permanentClassrooms |-> permanentClassrooms,
              semiPermanentClassrooms |-> semiPermanentClassrooms,
              temporaryClassrooms |-> temporaryClassrooms ]
            @@ When(totalLearners > 0,
                 [ boysPercentage |-> percentage(totalBoys, totalLearners),
                   girlsPercentage |-> percentage(totalGirls, totalLearners),
                   disabledLearnersPercentage |->
                       percentage(totalDisabledLearners, totalLearners) ])
            @@ When(totalTeachers > 0,
                 [ maleTeachersPercentage |->
                       percentage(totalMaleTeachers, totalTeachers),
                   femaleTeachersPercentage |->
                       percentage(totalFemaleTeachers, totalTeachers) ])
            @@ When(totalClassrooms > 0,
                 [ permanentClassroomsPercentage |->
                       percentage(permanentClassrooms, totalClassrooms),
                   semiPermanentClassroomsPercentage |->
                       percentage(semiPermanentClassrooms, totalClassrooms),
                   temporaryClassroomsPercentage |->
                       percentage(temporaryClassrooms, totalClassrooms) ])
        teacherQualifications ==
            [ diplomaTeachers |-> diplomaTeachers,
              degreeTeachers |-> degreeTeachers,
              certificateTeachers |-> certificateTeachers,
              govtPayrollTeachers |-> govtPayrollTeachers ]
            @@ When(totalTeachers > 0,
                 [ diplomaPercentage |->
                       percentage(diplomaTeachers, totalTeachers),
                   degreePercentage |->
                       percentage(degreeTeachers, totalTeachers),
                   certificatePercentage |->
                       percentage(certificateTeachers, totalTeachers),
                   govtPayrollPercentage |->
                       percentage(govtPayrollTeachers, totalTeachers) ])
        \* ratios
        ratios ==
            When(totalTeachers > 0,
                 [ pupilTeacherRatio |->
                       toFixed1(totalLearners, totalTeachers) ])
            @@ When(totalClassrooms > 0,
                 [ pupilClassroomRatio |->
                       toFixed1(totalLearners, totalClassrooms) ])
        \* gaps: a percentage or ratio that was not assigned is undefined
        \* and compares false
        electricityGap ==
            IF total > 0
               /\ infrastructure.electricityPercentage
                      < Scale * BENCHMARKS.education.electricity_target
            THEN << [ type |-> "electricity",
                      current |-> infrastructure.electricityPercentage,
                      target |-> BENCHMARKS.education.electricity_target,
                      severity |->
                          getSeverity(infrastructure.electricityPercentage,
                              Scale * BENCHMARKS.education.electricity_target) ] >>
            ELSE <<>>
        pupilTeacherGap ==
            IF totalTeachers > 0
               /\ ratios.pupilTeacherRatio
                      > Scale * BENCHMARKS.education.pupil_teacher_ratio_primary
            THEN << [ type |-> "pupil_teacher_ratio",
                      current |-> ratios.pupilTeacherRatio,
                      benchmark |->
                          BENCHMARKS.education.pupil_teacher_ratio_primary,
                      severity |->
                          getSeverity(
                              Scale * BENCHMARKS.education.pupil_teacher_ratio_primary,
                              ratios.pupilTeacherRatio) ] >>
            ELSE <<>>
    IN  [ totalFacilities |-> total,
          byLevel |-> byLevel,
          byOwnership |-> byOwnership,
          infrastructure |-> infrastructure,
          enrollment |-> enrollment,
          teacherQualifications |-> teacherQualifications,
          ratios |-> ratios,
          gaps |-> electricityGap \o pupilTeacherGap,
          benchmarks |-> BENCHMARKS.education ]

-----------------------------------------------------------------------------
(* calculateHealthMetrics *)

\* isYes(facility.power_sources) || isYes(facility.electricity ||
\* facility.Electricity)
healthHasElectricity(f) ==
    \/ isYes(Get(f, "power_sources"))
    \/ isYes(FirstOf(f, <<"electricity", "Electricity">>))

RECURSIVE SumOf(_)
\* The sum of a sequence of numbers.
SumOf(xs) == IF xs = <<>> THEN 0 ELSE Head(xs) + SumOf(Tail(xs))

\* One increment for each of the two tests that says yes.
electricityIncrements_perTest(f) ==
    (IF isYes(Get(f, "power_sources")) THEN 1 ELSE 0)
    + (IF isYes(FirstOf(f, <<"electricity", "Electricity">>)) THEN 1 ELSE 0)

\* What one record adds to infrastructure.withElectricity: the single
\* withElectricity++ under the if.
electricityIncrements(f) == IF healthHasElectricity(f) THEN 1 ELSE 0

calculateHealthMetrics(fs) ==
    LET total == Len(fs)
        flag(names) == CountWhere(fs, LAMBDA f : isYes(FirstOf(f, names)))
        byLevel == CountByLabel([i \in 1..total |->
                       Or(FirstOf(fs[i], <<"level", "Level", "facility_level">>),
                          Unknown)])
        byOwnership == CountByLabel([i \in 1..total |->
                       Or(FirstOf(fs[i], <<"ownership", "Ownership">>), Unknown)])
        \* forEach: infrastructure
        withElectricity ==
            SumOf([i \in 1..total |-> electricityIncrements(fs[i])])
        withBackupPower == flag(<<"has_backup_power">>)
        withWater == flag(<<"water", "Water">>)
        withAmbulance == flag(<<"ambulance", "Ambulance">>)
        withMaternity == flag(<<"maternity_ward", "Maternity">>)
        withLaboratory == flag(<<"has_laboratory">>)
        withDeliveryRoom == flag(<<"has_delivery_room">>)
        withInpatientWard == flag(<<"has_inpatient_ward">>)
        \* forEach: services
        offeringHIV == flag(<<"hiv_services", "HIV", "has_hiv_tb_care",
                              "hivaids_and_tb_care1">>)
        offeringMaternal == flag(<<"maternal_services", "Maternal",
                                   "has_maternal_health">>)
        offeringChildHealth == flag(<<"child_health", "Child_Health">>)
        offeringImmunization == flag(<<"immunization", "Immunization",
                                       "has_immunization",
                                       "immunization_services1">>)
        offeringDiagnostics == flag(<<"has_diagnostics">>)
        offeringFamilyPlanning == flag(<<"has_family_planning">>)
        offeringSurgery == flag(<<"has_surgery">>)
        \* forEach: supplies
        withICCMSupplies == flag(<<"has_iccm_supplies">>)
        withORSSachets == flag(<<"has_ors_sachets">>)
        withZincTablets == flag(<<"has_zinc_tablets">>)
        withRDTKits == flag(<<"has_rdt_kits">>)
        withACTTablets == flag(<<"has_act_tablets">>)
        withAmoxicillin == flag(<<"has_amoxicillin">>)
        \* percentages, under the guard totalFacilities > 0
        infrastructure ==
            [ withElectricity |-> withElectricity,
              withBackupPower |-> withBackupPower,
              withWater |-> withWater,
              withAmbulance |-> withAmbulance,
              withMaternity |-> withMaternity,
              withLaboratory |-> withLaboratory,
              withDeliveryRoom |-> withDeliveryRoom,
              withInpatientWard |-> withInpatientWard ]
            @@ When(total > 0,
                 [ electricityPercentage |->
                       percentage(withElectricity, total),
                   backupPowerPercentage |->
                       percentage(withBackupPower, total),
                   waterPercentage |-> percentage(withWater, total),
                   ambulancePercentage |-> percentage(withAmbulance, total),
                   maternityPercentage |-> percentage(withMaternity, total),
                   laboratoryPercentage |->
                       percentage(withLaboratory, total),
                   deliveryRoomPercentage |->
                       percentage(withDeliveryRoom, total),
                   inpatientWardPercentage |->
                       percentage(withInpatientWard, total) ])
        services ==
            [ offeringHIV |-> offeringHIV,
              offeringMaternal |-> offeringMaternal,
              offeringChildHealth |-> offeringChildHealth,
              offeringImmunization |-> offeringImmunization,
              offeringDiagnostics |-> offeringDiagnostics,
              offeringFamilyPlanning |-> offeringFamilyPlanning,
              offeringSurgery |-> offeringSurgery ]
            @@ When(total > 0,
                 [ hivPercentage |-> percentage(offeringHIV, total),
                   maternalPercentage |->
                       percentage(offeringMaternal, total),
                   childHealthPercentage |->
                       percentage(offeringChildHealth, total),
                   immunizationPercentage |->
                       percentage(offeringImmunization, total),
                   diagnosticsPercentage |->
                       percentage(offeringDiagnostics, total),
                   familyPlanningPercentage |->
                       percentage(offeringFamilyPlanning, total),
                   surgeryPercentage |-> percentage(offeringSurgery, total) ])
        supplies ==
            [ withICCMSupplies |-> withICCMSupplies,
              withORSSachets |-> withORSSachets,
              withZincTablets |-> withZincTablets,
              withRDTKits |-> withRDTKits,
              withACTTablets |-> withACTTablets,
              withAmoxicillin |-> withAmoxicillin ]
            @@ When(total > 0,
                 [ iccmSuppliesPercentage |->
                       percentage(withICCMSupplies, total),
                   orsSachetsPercentage |->
                       percentage(withORSSachets, total),
                   zincTabletsPercentage |->
                       percentage(withZincTablets, total),
                   rdtKitsPercentage |-> percentage(withRDTKits, total),
                   actTabletsPercentage |->
                       percentage(withACTTablets, total),
                   amoxicillinPercentage |->
                       percentage(withAmoxicillin, total) ])
        electricityGap ==
            IF total > 0
               /\ infrastructure.electricityPercentage
                      < Scale * BENCHMARKS.health.electricity_target
            THEN << [ type |-> "electricity",
                      current |-> infrastructure.electricityPercentage,
                      target |-> BENCHMARKS.health.electricity_target,
                      severity |->
                          getSeverity(infrastructure.electricityPercentage,
                              Scale * BENCHMARKS.health.electricity_target) ] >>
            ELSE <<>>
    IN  [ totalFacilities |-> total,
          byLevel |-> byLevel,
          byOwnership |-> byOwnership,
          infrastructure |-> infrastructure,
          services |-> services,
          supplies |-> supplies,
          gaps |-> electricityGap,
          benchmarks |-> BENCHMARKS.health ]

-----------------------------------------------------------------------------
(* calculateMetrics *)

calculateMetrics_educationOnly(fs, cat) ==
    IF cat = "education" \/ cat = "health"
    THEN calculateEducationMetrics(fs)
    ELSE EmptyObject

calculateMetrics_educationByDefault(fs, cat) ==
    IF cat = "health" THEN calculateHealthMetrics(fs)
    ELSE calculateEducationMetrics(fs)

calculateMetrics(fs, cat) ==
    IF cat = "education" THEN calculateEducationMetrics(fs)
    ELSE IF cat = "health" THEN calculateHealthMetrics(fs)
    ELSE EmptyObject

-----------------------------------------------------------------------------
(* getSubcountyBreakdown *)

\* String.prototype.includes: needle occurs somewhere in s.
Includes(s, needle) ==
    \E i \in 1..(Len(s) - Len(needle) + 1) :
        SubSeq(s, i, i + Len(needle) - 1) = needle

\* facility.subcounty || facility.Subcounty || facility.sub_county ||
\* 'Unknown'
subcountyOf(facility) ==
    Or(FirstOf(facility, <<"subcounty", "Subcounty", "sub_county">>), Unknown)

\* The keys of subcountyMap in insertion order: each name at the place of
\* its first facility.
RECURSIVE groupNames(_, _)
groupNames(fs, seen) ==
    IF fs = <<>> THEN seen
    ELSE IF \E i \in 1..Len(seen) : seen[i] = subcountyOf(Head(fs))
    THEN groupNames(Tail(fs), seen)
    ELSE groupNames(Tail(fs), Append(seen, subcountyOf(Head(fs))))

\* The category taken from the last facility of the group.
groupCategory_lastRecord(groupFacilities) ==
    LET level == Get(groupFacilities[Len(groupFacilities)], "level")
    IN  IF level # Undefined
           /\ Includes(ToLower(level), <<"h", "e", "a", "l", "t", "h">>)
        THEN "health"
        ELSE "education"

\* sc.facilities[0]?.level?.toLowerCase().includes('health') ? 'health' :
\* 'education'
groupCategory(groupFacilities) ==
    LET level == Get(groupFacilities[1], "level")
    IN  IF level # Undefined
           /\ Includes(ToLower(level), <<"h", "e", "a", "l", "t", "h">>)
        THEN "health"
        ELSE "education"

\* One entry of the breakdown: { location, facilityCount, ...scMetrics }.
breakdownEntry(name, fs) ==
    LET groupFacilities == SelectSeq(fs, LAMBDA f : subcountyOf(f) = name)
    IN  [ location |-> name, facilityCount |-> Len(groupFacilities) ]
        @@ calculateMetrics(groupFacilities, groupCategory(groupFacilities))

\* The insertion of a sort by facilityCount ascending (a - b for b - a).
RECURSIVE insertSorted_ascending(_, _)
insertSorted_ascending(sorted, entry) ==
    IF sorted = <<>> THEN <<entry>>
    ELSE IF Head(sorted).facilityCount <= entry.facilityCount
    THEN <<Head(sorted)>> \o insertSorted_ascending(Tail(sorted), entry)
    ELSE <<entry>> \o sorted

\* entry inserted into a list sorted by facilityCount descending, after
\* the entries of equal count (the sort is stable).
RECURSIVE insertSorted(_, _)
insertSorted(sorted, entry) ==
    IF sorted = <<>> THEN <<entry>>
    ELSE IF Head(sorted).facilityCount >= entry.facilityCount
    THEN <<Head(sorted)>> \o insertSorted(Tail(sorted), entry)
    ELSE <<entry>> \o sorted

\* breakdown.sort((a, b) => b.facilityCount - a.facilityCount)
RECURSIVE sortByCount(_, _)
sortByCount(entries, sorted) ==
    IF entries = <<>> THEN sorted
    ELSE sortByCount(Tail(entries), insertSorted(sorted, Head(entries)))

getSubcountyBreakdown(fs) ==
    LET names == groupNames(fs, <<>>)
    IN  sortByCount([i \in 1..Len(names) |-> breakdownEntry(names[i], fs)],
                    <<>>)

-----------------------------------------------------------------------------
(* Calls of calculateMetrics and getSubcountyBreakdown *)

\* Field values.
Yes     == <<"Y", "e", "s">>
No      == <<"n", "o">>
Hundred == <<"1", "0", "0">>
Zero    == <<"0">>

\* Rows that set one or two of the alternate names ns of one attribute:
\* one name set to '', a or b, or two names set to different values, at
\* most one of them ''.
AlternateRows(ns, a, b) ==
    { Row1(ns[i], v) : i \in 1..Len(ns), v \in {<<>>, a, b} }
    \cup { Row2(ns[p[1]], p[3], ns[p[2]], p[4]) :
             p \in { q \in (1..Len(ns)) \X (1..Len(ns))
                            \X {<<>>, a, b} \X {a, b} :
                      q[1] # q[2] /\ q[3] # q[4] } }

\* The attributes of an education record that have alternate names, as
\* <<kind, section, property, names>>.
EducationAttributes ==
    { <<"label", "byLevel", "", <<"level", "Level">> >>,
      <<"label", "byOwnership", "", <<"ownership", "Ownership">> >>,
      <<"flag", "infrastructure", "withElectricity",
        <<"electricity_available", "Electricity">> >>,
      <<"flag", "infrastructure", "withWater",
        <<"water_available", "Water">> >>,
      <<"flag", "infrastructure", "withICTLab",
        <<"ict_lab_available", "ict_lab", "ICT_Lab">> >>,
      <<"number", "enrollment", "totalLearners",
        <<"total_learners", "Total_Learners", "enrollment">> >>,
      <<"number", "enrollment", "totalTeachers",
        <<"total_teachers", "Total_Teachers", "teachers">> >>,
      <<"number", "enrollment", "totalClassrooms",
        <<"total_classrooms", "Total_Classrooms", "classrooms">> >> }

\* The same for a health record, the electricity flag apart.
HealthAttributes ==
    { <<"label", "byLevel", "", <<"level", "Level", "facility_level">> >>,
      <<"label", "byOwnership", "", <<"ownership", "Ownership">> >>,
      <<"flag", "infrastructure", "withWater", <<"water", "Water">> >>,
      <<"flag", "infrastructure", "withAmbulance",
        <<"ambulance", "Ambulance">> >>,
      <<"flag", "infrastructure", "withMaternity",
        <<"maternity_ward", "Maternity">> >>,
      <<"flag", "services", "offeringHIV",
        <<"hiv_services", "HIV", "has_hiv_tb_care",
          "hivaids_and_tb_care1">> >>,
      <<"flag", "services", "offeringMaternal",
        <<"maternal_services", "Maternal", "has_maternal_health">> >>,
      <<"flag", "services", "offeringChildHealth",
        <<"child_health", "Child_Health">> >>,
      <<"flag", "services", "offeringImmunization",
        <<"immunization", "Immunization", "has_immunization",
          "immunization_services1">> >> }

\* The fields read for the electricity flag of a health record.
HealthElectricityNames == <<"power_sources", "electricity", "Electricity">>

SubcountyNames == <<"subcounty", "Subcounty", "sub_county">>

RowsOfAttribute(attr) ==
    IF attr[1] = "number" THEN AlternateRows(attr[4], Hundred, Zero)
    ELSE AlternateRows(attr[4], Yes, No)

AlternateRowPool(cat) ==
    UNION { RowsOfAttribute(attr) :
              attr \in IF cat = "education" THEN EducationAttributes
                       ELSE HealthAttributes }
    \cup AlternateRows(SubcountyNames, Yes, No)
    \cup (IF cat = "health"
          THEN AlternateRows(HealthElectricityNames, Yes, No)
          ELSE {})

\* Largest number of records in a call that exercises alternate names.
MaxAlternateRecords == 1

InitAlternates ==
    /\ pc = "ready"
    /\ category \in {"education", "health"}
    /\ facilities \in SeqsUpTo(AlternateRowPool(category), MaxAlternateRecords)
    /\ metrics = <<>> /\ breakdown = <<>>
    /\ location = <<>> /\ filtered = <<>>
    /\ locations = <<>> /\ code = <<>> /\ found = <<>>
    /\ csvContent = <<>> /\ parsed = <<>>
    /\ line = <<>> /\ values = <<>> /\ fields = <<>> /\ wrapped = <<>>
    /\ argCurrent = 0 /\ argTarget = 0 /\ returnedSeverity = ""
    /\ benchmarkTables = <<>> /\ held = <<>>
    /\ dataCache = <<>> /\ calls = <<>>
    /\ fetchCount = <<>> /\ parseCount = <<>>
    /\ argValue = <<>> /\ returnedYes = FALSE
    /\ schema = <<>>
    /\ clock = 0 /\ rateLimitMap = <<>> /\ answered = <<>>
    /\ requestIP = "" /\ returnedLimited = FALSE
    /\ watchFrom = 0 /\ watchIP = "" /\ watchCount = 0
    /\ aiResponse = <<>> /\ givenResponse = <<>> /\ returnedResponse = <<>>

CalculateMetrics ==
    /\ pc = "ready"
    /\ metrics' = calculateMetrics(facilities, category)
    /\ pc' = "done"
    /\ UNCHANGED <<facilities, category, breakdown, location, filtered,
                   resolverVars, csvVars, lineVars,
                   severityVars,
                   aliasVars,
                   loaderVars,
                   yesVars,
                   schemaVars,
                   rateVars,
                   responseVars>>

GetSubcountyBreakdown ==
    /\ pc = "ready"
    /\ breakdown' = getSubcountyBreakdown(facilities)
    /\ pc' = "ranked"
    /\ UNCHANGED <<facilities, category, metrics, location, filtered,
                   resolverVars, csvVars, lineVars,
                   severityVars,
                   aliasVars,
                   loaderVars,
                   yesVars,
                   schemaVars,
                   rateVars,
                   responseVars>>

NextMetrics == CalculateMetrics \/ GetSubcountyBreakdown

SpecAlternates == InitAlternates /\ [][NextMetrics]_vars

-----------------------------------------------------------------------------
(* Properties of the alternate field names *)

\* The value of the first of the names that is present in the record and
\* not empty, or undefined when there is none.
FirstNonEmpty(facility, names) ==
    LET set == { i \in 1..Len(names) :
                   names[i] \in DOMAIN facility /\ facility[names[i]] # <<>> }
        first == CHOOSE i \in set : \A j \in set : i <= j
    IN  IF set = {} THEN Undefined ELSE facility[names[first]]

AttributesOf(cat) ==
    IF cat = "education" THEN EducationAttributes ELSE HealthAttributes

\* What the aggregate reports for one attribute agrees with the values the
\* first non-empty alternates give.
AttributeFromFirstNonEmpty(attr) ==
    LET resolved == [i \in 1..Len(facilities) |->
                        FirstNonEmpty(facilities[i], attr[4])]
    IN  CASE attr[1] = "flag" ->
               metrics[attr[2]][attr[3]]
                 = Cardinality({i \in 1..Len(facilities) : isYes(resolved[i])})
          [] attr[1] = "number" ->
               metrics[attr[2]][attr[3]]
                 = SumPositive([i \in 1..Len(facilities) |->
                                   parseNumber(resolved[i])])
          [] attr[1] = "label" ->
               metrics[attr[2]]
                 = LET labels == [i \in 1..Len(facilities) |->
                                     IF resolved[i] = Undefined THEN Unknown
                                     ELSE resolved[i]]
                   IN  [l \in {labels[i] : i \in 1..Len(labels)} |->
                           Occurrences(labels, l)]

\* The groups of the breakdown are the first non-empty subcounty names,
\* each with the number of its records.
SubcountyFromFirstNonEmpty ==
    LET resolved == [i \in 1..Len(facilities) |->
                        FirstNonEmpty(facilities[i], SubcountyNames)]
        label(i) == IF resolved[i] = Undefined THEN Unknown ELSE resolved[i]
    IN  /\ { breakdown[k].location : k \in 1..Len(breakdown) }
             = { label(i) : i \in 1..Len(facilities) }
        /\ \A k \in 1..Len(breakdown) :
             breakdown[k].facilityCount
               = Cardinality({ i \in 1..Len(facilities) :
                                 label(i) = breakdown[k].location })

\* C8 as stated: every attribute the aggregator reads, the electricity flag
\* of a health record included, takes the value of the first alternate
\* name that is present and non-empty, and no later alternate is consulted
\* whatever that value is.
C8_FirstNonEmptyAlternateWins ==
    /\ pc = "done" =>
         /\ \A attr \in AttributesOf(category) :
              AttributeFromFirstNonEmpty(attr)
         /\ category = "health" =>
              AttributeFromFirstNonEmpty(
                <<"flag", "infrastructure", "withElectricity",
                  HealthElectricityNames>>)
    /\ pc = "ranked" => SubcountyFromFirstNonEmpty

\* C8 amended: as C8, except that a health record counts as having
\* electricity when power_sources is affirmative, or else when the first
\* non-empty of electricity and Electricity is affirmative.
C8_FirstNonEmptyExceptHealthElectricity ==
    /\ pc = "done" =>
         /\ \A attr \in AttributesOf(category) :
              AttributeFromFirstNonEmpty(attr)
         /\ category = "health" =>
              metrics.infrastructure.withElectricity
                = Cardinality({ i \in 1..Len(facilities) :
                    \/ isYes(Get(facilities[i], "power_sources"))
                    \/ isYes(FirstNonEmpty(facilities[i],
                                           <<"electricity", "Electricity">>)) })
    /\ pc = "ranked" => SubcountyFromFirstNonEmpty

\* An education record whose electricity_available says no and whose
\* Electricity says yes has been aggregated, and was not counted.
C8_Witness ==
    /\ pc = "done"
    /\ category = "education"
    /\ \E i \in 1..Len(facilities) :
         /\ Get(facilities[i], "electricity_available") = No
         /\ Get(facilities[i], "Electricity") = Yes
    /\ metrics.infrastructure.withElectricity = 0

\* A record with two subcounty spellings has been grouped under the
\* earlier one.
C8_WitnessSubcounty ==
    /\ pc = "ranked"
    /\ \E i \in 1..Len(facilities) :
         /\ Get(facilities[i], "Subcounty") = No
         /\ Get(facilities[i], "sub_county") = Yes
    /\ \E k \in 1..Len(breakdown) : breakdown[k].location = No

-----------------------------------------------------------------------------
(* Aggregation of record sets *)

TwoStaff  == <<"2">>
FiveStaff == <<"5">>

\* Education records: electricity yes or no, water yes or no, and either
\* no enrollment columns or 100 learners with 2 or with 5 teachers and
\* classrooms; and one record whose learners and teachers cells read
\* Infinity.
EducationRowPool ==
    { Row1("electricity_available", e) @@ r :
        e \in {Yes, No},
        r \in { Row1("water_available", Yes),
                Row1("water_available", No),
                [ water_available |-> Yes, total_learners |-> Hundred,
                  total_teachers |-> TwoStaff, total_classrooms |-> TwoStaff ],
                [ water_available |-> No, total_learners |-> Hundred,
                  total_teachers |-> FiveStaff,
                  total_classrooms |-> FiveStaff ] } }
    \cup { [ electricity_available |-> Yes, water_available |-> Yes,
             total_learners |-> InfinityLiteral,
             total_teachers |-> InfinityLiteral,
             total_classrooms |-> FiveStaff ] }

\* Health records: electricity yes, no or not recorded, water yes or no,
\* power_sources yes or not recorded.
HealthRowPool ==
    { r @@ p :
        r \in { Row1("water", No),
                [ water |-> Yes, electricity |-> Yes ],
                [ water |-> Yes, electricity |-> No ],
                [ water |-> No, electricity |-> No ] },
        p \in { EmptyObject, Row1("power_sources", Yes) } }

\* A category calculateMetrics has no aggregator for.
OtherCategory == "agriculture"

MetricsRowPool(cat) ==
    IF cat = "health" THEN HealthRowPool ELSE EducationRowPool

\* Largest number of records in an aggregated set.
MaxRecords == 3

InitMetrics ==
    /\ pc = "ready"
    /\ category \in {"education", "health", OtherCategory}
    /\ facilities \in SeqsUpTo(MetricsRowPool(category), MaxRecords)
    /\ metrics = <<>> /\ breakdown = <<>>
    /\ location = <<>> /\ filtered = <<>>
    /\ locations = <<>> /\ code = <<>> /\ found = <<>>
    /\ csvContent = <<>> /\ parsed = <<>>
    /\ line = <<>> /\ values = <<>> /\ fields = <<>> /\ wrapped = <<>>
    /\ argCurrent = 0 /\ argTarget = 0 /\ returnedSeverity = ""
    /\ benchmarkTables = <<>> /\ held = <<>>
    /\ dataCache = <<>> /\ calls = <<>>
    /\ fetchCount = <<>> /\ parseCount = <<>>
    /\ argValue = <<>> /\ returnedYes = FALSE
    /\ schema = <<>>
    /\ clock = 0 /\ rateLimitMap = <<>> /\ answered = <<>>
    /\ requestIP = "" /\ returnedLimited = FALSE
    /\ watchFrom = 0 /\ watchIP = "" /\ watchCount = 0
    /\ aiResponse = <<>> /\ givenResponse = <<>> /\ returnedResponse = <<>>

SpecMetrics == InitMetrics /\ [][NextMetrics]_vars

-----------------------------------------------------------------------------
(* Properties of gap detection *)

\* The gaps list of the aggregate has an entry of the given type.
HasGap(type) ==
    \E k \in 1..Len(metrics.gaps) : metrics.gaps[k].type = type

\* C9: every metric with a benchmark in the category's table that fails
\* its benchmark has a Gap record in the aggregate: for education the
\* electricity, water and ICT lab percentages (below target) and the
\* pupil-teacher and pupil-classroom ratios (above the benchmark), for
\* health the electricity and water percentages.
C9_GapForEveryBenchmarkedMetric ==
    (pc = "done" /\ Len(facilities) > 0) =>
      /\ category = "education" =>
           /\ metrics.infrastructure.electricityPercentage
                < Scale * BENCHMARKS.education.electricity_target
                => HasGap("electricity")
           /\ metrics.infrastructure.waterPercentage
                < Scale * BENCHMARKS.education.water_target
                => HasGap("water")
           /\ metrics.infrastructure.ictLabPercentage
                < Scale * BENCHMARKS.education.ict_lab_target
                => HasGap("ict_lab")
           /\ ( /\ "pupilTeacherRatio" \in DOMAIN metrics.ratios
                /\ metrics.ratios.pupilTeacherRatio
                     > Scale * BENCHMARKS.education.pupil_teacher_ratio_primary )
                => HasGap("pupil_teacher_ratio")
           /\ ( /\ "pupilClassroomRatio" \in DOMAIN metrics.ratios
                /\ metrics.ratios.pupilClassroomRatio
                     > Scale * BENCHMARKS.education.pupil_classroom_ratio )
                => HasGap("pupil_classroom_ratio")
      /\ category = "health" =>
           /\ metrics.infrastructure.electricityPercentage
                < Scale * BENCHMARKS.health.electricity_target
                => HasGap("electricity")
           /\ metrics.infrastructure.waterPercentage
                < Scale * BENCHMARKS.health.water_target
                => HasGap("water")

\* The record is counted as having electricity.
HasElectricity(facility, cat) ==
    IF cat = "education"
    THEN isYes(FirstNonEmpty(facility,
                             <<"electricity_available", "Electricity">>))
    ELSE \/ isYes(Get(facility, "power_sources"))
         \/ isYes(FirstNonEmpty(facility, <<"electricity", "Electricity">>))

\* The share, in percent, of the records counted as having electricity, to
\* the nearest tenth.
ElectricityShare ==
    LET n == Cardinality({ i \in 1..Len(facilities) :
                             HasElectricity(facilities[i], category) })
        below == (Scale * 100 * n) \div Len(facilities)
        rest  == (Scale * 100 * n) % Len(facilities)
    IN  IF 2 * rest >= Len(facilities) THEN below + 1 ELSE below

ElectricityGaps ==
    { k \in 1..Len(metrics.gaps) : metrics.gaps[k].type = "electricity" }

\* C10: for a non-empty record set of either category, an electricity
\* share below 100 gives exactly one gap of type electricity, with the
\* share as its current value and 100 as its target; when every record has
\* electricity the gaps have no electricity entry.
C10_ElectricityGapBelowTarget ==
    (pc = "done" /\ category \in {"education", "health"}
     /\ Len(facilities) > 0) =>
      /\ ElectricityShare < Scale * 100 =>
           /\ Cardinality(ElectricityGaps) = 1
           /\ \A k \in ElectricityGaps :
                /\ metrics.gaps[k].current = ElectricityShare
                /\ metrics.gaps[k].target = 100
      /\ (\A i \in 1..Len(facilities) :
            HasElectricity(facilities[i], category))
           => ElectricityGaps = {}

\* Two of three health records have electricity, one of them by its
\* power_sources only, and the 66.7 percent are reported as a gap.
C10_Witness ==
    /\ pc = "done"
    /\ category = "health"
    /\ Len(facilities) = 3
    /\ ElectricityShare = 667
    /\ \E i \in 1..3 : /\ Get(facilities[i], "power_sources") = Yes
                       /\ Get(facilities[i], "electricity") = No
    /\ \E k \in 1..Len(metrics.gaps) :
         /\ metrics.gaps[k].type = "electricity"
         /\ metrics.gaps[k].current = 667

\* Every record of an education set has electricity and the aggregate
\* reports no electricity gap.
C10_WitnessNoGap ==
    /\ pc = "done"
    /\ category = "education"
    /\ Len(facilities) = 2
    /\ \A i \in 1..2 : Get(facilities[i], "electricity_available") = Yes
    /\ ElectricityGaps = {}

-----------------------------------------------------------------------------
(* Calls of getSeverity *)

\* Largest argument of a call.
MaxSeverityArgument == 20

InitSeverity ==
    /\ pc = "ready"
    /\ argCurrent \in 0..MaxSeverityArgument
    /\ argTarget \in 0..MaxSeverityArgument
    /\ returnedSeverity = ""
    /\ facilities = <<>> /\ location = <<>> /\ filtered = <<>>
    /\ locations = <<>> /\ code = <<>> /\ found = <<>>
    /\ csvContent = <<>> /\ parsed = <<>>
    /\ line = <<>> /\ values = <<>> /\ fields = <<>> /\ wrapped = <<>>
    /\ category = "" /\ metrics = <<>> /\ breakdown = <<>>
    /\ benchmarkTables = <<>> /\ held = <<>>
    /\ dataCache = <<>> /\ calls = <<>>
    /\ fetchCount = <<>> /\ parseCount = <<>>
    /\ argValue = <<>> /\ returnedYes = FALSE
    /\ schema = <<>>
    /\ clock = 0 /\ rateLimitMap = <<>> /\ answered = <<>>
    /\ requestIP = "" /\ returnedLimited = FALSE
    /\ watchFrom = 0 /\ watchIP = "" /\ watchCount = 0
    /\ aiResponse = <<>> /\ givenResponse = <<>> /\ returnedResponse = <<>>

GetSeverity ==
    /\ pc = "ready"
    /\ returnedSeverity' = getSeverity(argCurrent, argTarget)
    /\ pc' = "done"
    /\ UNCHANGED <<argCurrent, argTarget, filterVars, resolverVars, csvVars,
                   lineVars, metricsVars,
                   aliasVars,
                   loaderVars,
                   yesVars,
                   schemaVars,
                   rateVars,
                   responseVars>>

NextSeverity == GetSeverity

SpecSeverity == InitSeverity /\ [][NextSeverity]_vars

\* The ratio argCurrent / argTarget, for a positive argTarget, is below
\* num / den.
RatioBelow(num, den) == den * argCurrent < num * argTarget

SeverityLevels == {"critical", "high", "medium", "low"}

\* C11: for positive arguments the ratio r of the first to the second is
\* classified with strict thresholds: r < 0.5 critical, 0.5 <= r < 0.75
\* high, 0.75 <= r < 0.9 medium, r >= 0.9 low, and the result is one of
\* the four levels.
C11_SeverityThresholds ==
    (pc = "done" /\ argCurrent > 0 /\ argTarget > 0) =>
      /\ returnedSeverity \in SeverityLevels
      /\ returnedSeverity = "critical" <=> RatioBelow(50, 100)
      /\ returnedSeverity = "high"
           <=> (~RatioBelow(50, 100) /\ RatioBelow(75, 100))
      /\ returnedSeverity = "medium"
           <=> (~RatioBelow(75, 100) /\ RatioBelow(90, 100))
      /\ returnedSeverity = "low" <=> ~RatioBelow(90, 100)

\* A ratio of 0.8 has been classified, as medium.
C11_Witness ==
    /\ pc = "done"
    /\ argCurrent = 8 /\ argTarget = 10
    /\ returnedSeverity = "medium"

\* C12 as stated: a ratio of exactly 0.75 is classified as high.
C12_ThreeQuartersIsHigh ==
    (pc = "done" /\ argTarget > 0 /\ 4 * argCurrent = 3 * argTarget)
      => returnedSeverity = "high"

\* C12 amended: a ratio of exactly 0.75 is classified as medium, not
\* high, the comparison with 0.75 being strict.
C12_ThreeQuartersIsMedium ==
    (pc = "done" /\ argTarget > 0 /\ 4 * argCurrent = 3 * argTarget)
      => returnedSeverity = "medium"

\* The ratio 15 / 20 has been classified.
C12_Witness ==
    /\ pc = "done"
    /\ argCurrent = 15 /\ argTarget = 20
    /\ returnedSeverity = "medium"

-----------------------------------------------------------------------------
(* Properties of the derived fields *)

FacilityShares(section, keys) ==
    { <<section, k, "", "totalFacilities">> : k \in keys }

\* The derived fields of an aggregate, each as <<section, key, section of
\* the denominator, key of the denominator>>.
DerivedFields(cat) ==
    IF cat = "education"
    THEN FacilityShares("infrastructure",
           { "electricityPercentage", "waterPercentage", "ictLabPercentage",
             "handwashingPercentage",
             "disabilityAccessibleToiletsPercentage",
             "separateGenderToiletsPercentage" })
         \cup { <<"enrollment", k, "enrollment", "totalLearners">> :
                  k \in { "boysPercentage", "girlsPercentage",
                          "disabledLearnersPercentage" } }
         \cup { <<"enrollment", k, "enrollment", "totalTeachers">> :
                  k \in { "maleTeachersPercentage",
                          "femaleTeachersPercentage" } }
         \cup { <<"teacherQualifications", k, "enrollment", "totalTeachers">> :
                  k \in { "diplomaPercentage", "degreePercentage",
                          "certificatePercentage", "govtPayrollPercentage" } }
         \cup { <<"enrollment", k, "enrollment", "totalClassrooms">> :
                  k \in { "permanentClassroomsPercentage",
                          "semiPermanentClassroomsPercentage",
                          "temporaryClassroomsPercentage" } }
         \cup { <<"ratios", "pupilTeacherRatio", "enrollment",
                  "totalTeachers">>,
                <<"ratios", "pupilClassroomRatio", "enrollment",
                  "totalClassrooms">> }
    ELSE FacilityShares("infrastructure",
           { "electricityPercentage", "backupPowerPercentage",
             "waterPercentage", "ambulancePercentage", "maternityPercentage",
             "laboratoryPercentage", "deliveryRoomPercentage",
             "inpatientWardPercentage" })
         \cup FacilityShares("services",
           { "hivPercentage", "maternalPercentage", "childHealthPercentage",
             "immunizationPercentage", "diagnosticsPercentage",
             "familyPlanningPercentage", "surgeryPercentage" })
         \cup FacilityShares("supplies",
           { "iccmSuppliesPercentage", "orsSachetsPercentage",
             "zincTabletsPercentage", "rdtKitsPercentage",
             "actTabletsPercentage", "amoxicillinPercentage" })

DenominatorOf(d) ==
    IF d[3] = "" THEN metrics[d[4]] ELSE metrics[d[3]][d[4]]

\* C13: a derived percentage or ratio is absent from the aggregate when
\* its denominator (totalFacilities, totalLearners, totalTeachers,
\* totalClassrooms) is zero, and one that is present is never NaN or
\* Infinity.
C13_DerivedFieldsOmittedNeverNaN ==
    (pc = "done" /\ category \in {"education", "health"}) =>
      \A d \in DerivedFields(category) :
        /\ DenominatorOf(d) = 0 => d[2] \notin DOMAIN metrics[d[1]]
        /\ d[2] \in DOMAIN metrics[d[1]]
             => metrics[d[1]][d[2]] \notin {NaN, Infinity}

\* The part of C13 about zero denominators: a derived field is present
\* exactly when its denominator is positive.
DerivedFieldsFollowDenominators ==
    (pc = "done" /\ category \in {"education", "health"}) =>
      \A d \in DerivedFields(category) :
        d[2] \in DOMAIN metrics[d[1]] <=> DenominatorOf(d) > 0

-----------------------------------------------------------------------------
(* Aggregates and the module-level benchmark tables *)

\* "metrics.benchmarks = BENCHMARKS.education" stores a reference to the
\* module-level table, not a copy: what a reader finds under benchmarks is
\* what the table holds at that moment.  Every other part of an aggregate
\* is built by object literals inside the call.
attachBenchmarks(aggregate, cat, tables) ==
    IF "benchmarks" \in DOMAIN aggregate
    THEN [aggregate EXCEPT !.benchmarks = tables[cat]]
    ELSE aggregate

\* The parts of an aggregate that the call allocated.
ownParts(aggregate) ==
    [k \in DOMAIN aggregate \ {"benchmarks"} |-> aggregate[k]]

\* The breakdown with the benchmarks of each entry read through its
\* reference: the spread "...scMetrics" copies the reference.
attachBreakdownBenchmarks(entries, fs, tables) ==
    [i \in 1..Len(entries) |->
        attachBenchmarks(entries[i],
            groupCategory(SelectSeq(fs, LAMBDA f :
                              subcountyOf(f) = entries[i].location)),
            tables)]

AliasRowPool ==
    { Row1("electricity_available", Yes),
      Row2("level", <<"h", "e", "a", "l", "t", "h">>, "water", No) }

\* Largest number of records in a call of this part.
MaxAliasRecords == 1

\* What a caller may write into a benchmark table it reached through an
\* aggregate.
WrittenKeys == {"water_target"}
WrittenValues == {0, 50}

InitAliasing ==
    /\ pc = "ready"
    /\ benchmarkTables = BENCHMARKS
    /\ held = <<>>
    /\ facilities = <<>> /\ category = "" /\ metrics = <<>>
    /\ breakdown = <<>>
    /\ location = <<>> /\ filtered = <<>>
    /\ locations = <<>> /\ code = <<>> /\ found = <<>>
    /\ csvContent = <<>> /\ parsed = <<>>
    /\ line = <<>> /\ values = <<>> /\ fields = <<>> /\ wrapped = <<>>
    /\ argCurrent = 0 /\ argTarget = 0 /\ returnedSeverity = ""
    /\ dataCache = <<>> /\ calls = <<>>
    /\ fetchCount = <<>> /\ parseCount = <<>>
    /\ argValue = <<>> /\ returnedYes = FALSE
    /\ schema = <<>>
    /\ clock = 0 /\ rateLimitMap = <<>> /\ answered = <<>>
    /\ requestIP = "" /\ returnedLimited = FALSE
    /\ watchFrom = 0 /\ watchIP = "" /\ watchCount = 0
    /\ aiResponse = <<>> /\ givenResponse = <<>> /\ returnedResponse = <<>>

\* A call of calculateMetrics returns; the caller keeps the aggregate.
CallCalculateMetrics ==
    \E fs \in SeqsUpTo(AliasRowPool, MaxAliasRecords),
       cat \in {"education", "health"} :
      \E aggregate \in {calculateMetrics(fs, cat)} :
        /\ facilities' = fs
        /\ category' = cat
        /\ metrics' = attachBenchmarks(aggregate, cat, benchmarkTables)
        /\ held' = [ table |-> cat, own |-> ownParts(aggregate) ]
        /\ pc' = "done"
        /\ UNCHANGED <<benchmarkTables, breakdown, location, filtered,
                       resolverVars, csvVars, lineVars, severityVars,
                   loaderVars,
                   yesVars,
                   schemaVars,
                   rateVars,
                   responseVars>>

\* A call of getSubcountyBreakdown returns; the caller keeps its first
\* entry.
CallGetSubcountyBreakdown ==
    \E fs \in SeqsUpTo(AliasRowPool, MaxAliasRecords) \ {<<>>} :
      \E entries \in {getSubcountyBreakdown(fs)} :
        /\ facilities' = fs
        /\ breakdown' = attachBreakdownBenchmarks(entries, fs,
                                                  benchmarkTables)
        /\ held' = [ table |-> groupCategory(SelectSeq(fs, LAMBDA f :
                                   subcountyOf(f) = entries[1].location)),
                     own |-> ownParts(entries[1]) ]
        /\ pc' = "ranked"
        /\ UNCHANGED <<benchmarkTables, category, metrics, location,
                       filtered, resolverVars, csvVars, lineVars,
                       severityVars, loaderVars, yesVars,
                   schemaVars,
                   rateVars,
                   responseVars>>

\* The caller writes into a part of the aggregate that the call allocated.
MutateOwnPart ==
    /\ held # <<>>
    /\ \E v \in WrittenValues :
         held' = [held EXCEPT !.own.totalFacilities = v]
    /\ UNCHANGED <<pc, benchmarkTables, facilities, category, metrics,
                   breakdown, location, filtered, resolverVars, csvVars,
                   lineVars, severityVars,
                   loaderVars,
                   yesVars,
                   schemaVars,
                   rateVars,
                   responseVars>>

\* The caller writes into the benchmarks of the aggregate it holds:
\* held.benchmarks[key] = v.
MutateBenchmarks ==
    /\ held # <<>>
    /\ \E key \in WrittenKeys, v \in WrittenValues :
         benchmarkTables' = [benchmarkTables EXCEPT ![held.table][key] = v]
    /\ UNCHANGED <<pc, held, facilities, category, metrics, breakdown,
                   location, filtered, resolverVars, csvVars, lineVars,
                   severityVars,
                   loaderVars,
                   yesVars,
                   schemaVars,
                   rateVars,
                   responseVars>>

NextAliasing ==
    \/ CallCalculateMetrics
    \/ CallGetSubcountyBreakdown
    \/ MutateOwnPart
    \/ MutateBenchmarks

SpecAliasing == InitAliasing /\ [][NextAliasing]_vars

\* C14: what a call returns does not depend on what callers did to the
\* aggregates of earlier calls: it is what the same call returns in a
\* process where nothing was ever written.
C14_ResultsShareNothing ==
    /\ pc = "done" => metrics = calculateMetrics(facilities, category)
    /\ pc = "ranked" => breakdown = getSubcountyBreakdown(facilities)

-----------------------------------------------------------------------------
(* loadCSVData and loadLocations: the cache of loaded data *)

Kayunga == <<"K", "a", "y", "u", "n", "g", "a">>
KAYUNGA == <<"K", "A", "Y", "U", "N", "G", "A">>
Health == <<"h", "e", "a", "l", "t", "h">>
Education == <<"e", "d", "u", "c", "a", "t", "i", "o", "n">>

\* `${districtName.toLowerCase()}_${category}`
csvCacheKey(districtName, cat) == ToLower(districtName) \o <<"_">> \o cat

locationsCacheKey == <<"l", "o", "c", "a", "t", "i", "o", "n", "s">>

\* The file a call reads: health_facilities.csv for category health,
\* education_facilities.csv for any other category, locations.json.
fileOf(call) ==
    IF call.kind = "locations" THEN "locations.json"
    ELSE IF call.category = Health THEN "health_facilities.csv"
    ELSE "education_facilities.csv"

cacheKeyOf(call) ==
    IF call.kind = "locations" THEN locationsCacheKey
    ELSE csvCacheKey(call.districtName, call.category)

\* The text each file is served with.
SourceText ==
    [ f \in {"health_facilities.csv", "education_facilities.csv",
             "locations.json"} |->
        CASE f = "health_facilities.csv" ->
               <<"l", "o", "c", "a", "t", "i", "o", "n", "_", "c", "o", "d",
                 "e", Comma, "n", Newline>>
               \o D1S1 \o <<Comma, "a", Newline>>
               \o D2 \o <<Comma, "b", Newline>>
               \o <<Comma, "c">>
          [] f = "education_facilities.csv" -> <<"a", Newline, "e">>
          [] f = "locations.json" -> <<"{", "}">> ]

\* JSON.parse of the text locations.json is served with.
JSONParse(text) == CASE text = <<"{", "}">> -> EmptyObject

\* The headers of the served files, as property names and as the texts
\* parseCSV keys its rows with.
HeaderText ==
    [ location_code |-> <<"l", "o", "c", "a", "t", "i", "o", "n", "_", "c",
                          "o", "d", "e">>,
      n |-> <<"n">>,
      a |-> <<"a">> ]

\* A row of parseCSV with its keys as property names.
namedRow(row) ==
    [ name \in { h \in DOMAIN HeaderText : HeaderText[h] \in DOMAIN row } |->
        row[HeaderText[name]] ]

namedRows(rows) == [i \in 1..Len(rows) |-> namedRow(rows[i])]

\* parsed.filter(row => ...): the rows of the district of the location,
\* and every row when the location gives no district or the row no code.
districtRows(rows, loc) ==
    SelectSeq(rows, LAMBDA row :
        LET locationCode ==
                Or(Or(Get(row, "location_code"), Get(row, "Location_code")),
                   <<>>)
            districtCode == Get(loc, "district")
        IN  \/ ~Truthy(districtCode)
            \/ ~Truthy(locationCode)
            \/ StartsWith(locationCode, districtCode))

\* if (location && (location.subcounty || location.parish ||
\* location.village)) return filterByLocation(districtData, location)
narrowedRows(districtData, loc) ==
    IF \/ Truthy(Get(loc, "subcounty"))
       \/ Truthy(Get(loc, "parish"))
       \/ Truthy(Get(loc, "village"))
    THEN filterByLocation(districtData, loc)
    ELSE districtData

\* Location arguments: null, a district, a district and a subcounty.
LoaderLocations ==
    { NullObj, [district |-> D1], [district |-> D2],
      [district |-> D1, subcounty |-> D1S1] }

\* The arguments the calls are made with: (districtName, category, env,
\* location) for loadCSVData, none for loadLocations.  env is left at its
\* default, null.
CallArguments ==
    { [kind |-> "csv", districtName |-> d, category |-> c,
       location |-> NullObj] :
        d \in {Kayunga, KAYUNGA}, c \in {Health, Education} }
    \cup { [kind |-> "csv", districtName |-> Kayunga, category |-> Health,
            location |-> l] : l \in LoaderLocations }
    \cup { [kind |-> "locations", districtName |-> <<>>, category |-> <<>>,
            location |-> NullObj] }

CacheKeys == { cacheKeyOf(a) : a \in CallArguments }

\* The number of calls made in a process.
MaxCalls == 2

\* What a fetch may come back with: a thrown error or a response that is
\* not ok, an ok response with an empty body, an ok response with the
\* file's text.
FetchOutcomes == {"failed", "empty", "text"}

InitLoader ==
    /\ pc = "ready"
    /\ dataCache = <<>>
    /\ calls = [c \in 1..MaxCalls |-> [pc |-> "idle"]]
    /\ fetchCount = [k \in CacheKeys |-> 0]
    /\ parseCount = [k \in CacheKeys |-> 0]
    /\ facilities = <<>> /\ location = <<>> /\ filtered = <<>>
    /\ locations = <<>> /\ code = <<>> /\ found = <<>>
    /\ csvContent = <<>> /\ parsed = <<>>
    /\ line = <<>> /\ values = <<>> /\ fields = <<>> /\ wrapped = <<>>
    /\ category = "" /\ metrics = <<>> /\ breakdown = <<>>
    /\ argCurrent = 0 /\ argTarget = 0 /\ returnedSeverity = ""
    /\ benchmarkTables = <<>> /\ held = <<>>
    /\ argValue = <<>> /\ returnedYes = FALSE
    /\ schema = <<>>
    /\ clock = 0 /\ rateLimitMap = <<>> /\ answered = <<>>
    /\ requestIP = "" /\ returnedLimited = FALSE
    /\ watchFrom = 0 /\ watchIP = "" /\ watchCount = 0
    /\ aiResponse = <<>> /\ givenResponse = <<>> /\ returnedResponse = <<>>

loaderFrame ==
    <<pc, filterVars, resolverVars, csvVars, lineVars, metricsVars,
      severityVars, aliasVars, yesVars, schemaVars, rateVars>>

\* A load without content that stores its empty result under the key.
cacheAfterFailure_stored(cache, key) == (key :> EmptyObject) @@ cache

\* The cache after a load without content: "return []" ("return {}") comes
\* before dataCache.set is reached.
cacheAfterFailure(cache, key) == cache

\* What a call returns for the value held under its key: loadLocations the
\* value, loadCSVData the rows narrowed by the location.
returnedFor(call, value) ==
    IF call.kind = "locations" THEN value
    ELSE narrowedRows(value, call.location)

\* The call, up to its first await: with the key in the cache it returns
\* from the cached value; otherwise it starts the fetch of its file and
\* awaits the response.
StartLoad(c) ==
    /\ calls[c].pc = "idle"
    /\ \E a \in CallArguments :
         LET key == cacheKeyOf(a)
         IN  IF key \in DOMAIN dataCache
             THEN /\ calls' = [calls EXCEPT ![c] =
                        a @@ [pc |-> "returned", from |-> "cache",
                              result |-> returnedFor(a, dataCache[key])]]
                  /\ UNCHANGED fetchCount
             ELSE /\ calls' = [calls EXCEPT ![c] = a @@ [pc |-> "fetching"]]
                  /\ fetchCount' = [fetchCount EXCEPT ![key] = @ + 1]
    /\ UNCHANGED <<dataCache, parseCount, loaderFrame,
                   responseVars>>

\* The call, from the arrival of its response to its return: without
\* content it returns [] (or {}) and caches nothing; with content it
\* parses, keeps the rows of the district, stores them under the key and
\* returns them narrowed by the location.
FinishLoad(c) ==
    /\ calls[c].pc = "fetching"
    /\ \E outcome \in FetchOutcomes :
         LET call == calls[c]
             key == cacheKeyOf(call)
             content == IF outcome = "text" THEN SourceText[fileOf(call)]
                        ELSE IF outcome = "empty" THEN <<>>
                        ELSE Undefined
             value == IF call.kind = "locations" THEN JSONParse(content)
                      ELSE districtRows(namedRows(parseCSV(content)),
                                        call.location)
         IN  IF ~Truthy(content)
             THEN /\ calls' = [calls EXCEPT ![c] =
                        [call EXCEPT !.pc = "returned"]
                        @@ [from |-> "nothing", result |-> EmptyObject]]
                  /\ dataCache' = cacheAfterFailure(dataCache, key)
                  /\ UNCHANGED parseCount
             ELSE /\ parseCount' = [parseCount EXCEPT ![key] = @ + 1]
                  /\ dataCache' = (key :> value) @@ dataCache
                  /\ calls' = [calls EXCEPT ![c] =
                        [call EXCEPT !.pc = "returned"]
                        @@ [from |-> "source",
                            result |-> returnedFor(call, value)]]
    /\ UNCHANGED <<fetchCount, loaderFrame,
                   responseVars>>

NextLoader == \E c \in 1..MaxCalls : StartLoad(c) \/ FinishLoad(c)

SpecLoader == InitLoader /\ [][NextLoader]_vars

\* C15: the source of a cache key is fetched at most once and parsed at
\* most once in a process, whatever calls are made and however they
\* overlap.
C15_LoadedAtMostOnce ==
    \A k \in CacheKeys : fetchCount[k] <= 1 /\ parseCount[k] <= 1

-----------------------------------------------------------------------------
(* Breakdown by subcounty *)

Busaana == <<"B", "u", "s", "a", "a", "n", "a">>
Kayonza == <<"K", "a", "y", "o", "n", "z", "a">>

\* Records with a subcounty under one of its three names, with an empty
\* or no subcounty, and with the label Unknown written out.
SubcountyRowPool ==
    { Row1("electricity_available", Yes),
      Row1("subcounty", Busaana),
      Row2("Subcounty", Busaana, "level", Health),
      Row1("sub_county", Kayonza),
      Row2("subcounty", <<>>, "sub_county", Kayonza),
      Row1("subcounty", <<>>),
      Row1("Subcounty", Unknown) }

\* Largest number of records in a set that is broken down.
MaxBreakdownRecords == 3

InitBreakdown ==
    /\ pc = "ready"
    /\ category \in {"education", "health"}
    /\ facilities \in SeqsUpTo(SubcountyRowPool, MaxBreakdownRecords)
    /\ metrics = <<>> /\ breakdown = <<>>
    /\ location = <<>> /\ filtered = <<>>
    /\ locations = <<>> /\ code = <<>> /\ found = <<>>
    /\ csvContent = <<>> /\ parsed = <<>>
    /\ line = <<>> /\ values = <<>> /\ fields = <<>> /\ wrapped = <<>>
    /\ argCurrent = 0 /\ argTarget = 0 /\ returnedSeverity = ""
    /\ benchmarkTables = <<>> /\ held = <<>>
    /\ dataCache = <<>> /\ calls = <<>>
    /\ fetchCount = <<>> /\ parseCount = <<>>
    /\ argValue = <<>> /\ returnedYes = FALSE
    /\ schema = <<>>
    /\ clock = 0 /\ rateLimitMap = <<>> /\ answered = <<>>
    /\ requestIP = "" /\ returnedLimited = FALSE
    /\ watchFrom = 0 /\ watchIP = "" /\ watchCount = 0
    /\ aiResponse = <<>> /\ givenResponse = <<>> /\ returnedResponse = <<>>

SpecBreakdown == InitBreakdown /\ [][NextMetrics]_vars

\* The subcounty label of record i: its first non-empty subcounty name,
\* or Unknown.
SubcountyLabel(i) ==
    LET v == FirstNonEmpty(facilities[i], SubcountyNames)
    IN  IF v = Undefined THEN Unknown ELSE v

SubcountyLabels == { SubcountyLabel(i) : i \in 1..Len(facilities) }

RECURSIVE SumOfCounts(_)
SumOfCounts(entries) ==
    IF entries = <<>> THEN 0
    ELSE Head(entries).facilityCount + SumOfCounts(Tail(entries))

\* C16: the breakdown has exactly one entry per distinct subcounty label
\* of the records (Unknown for records without a non-empty subcounty),
\* each with the number of records of its group; the counts add up to the
\* number of records and never increase along the list.
C16_OneEntryPerSubcountyByCount ==
    pc = "ranked" =>
      /\ { breakdown[k].location : k \in 1..Len(breakdown) } = SubcountyLabels
      /\ Len(breakdown) = Cardinality(SubcountyLabels)
      /\ \A k \in 1..Len(breakdown) :
           breakdown[k].facilityCount
             = Cardinality({ i \in 1..Len(facilities) :
                               SubcountyLabel(i) = breakdown[k].location })
      /\ SumOfCounts(breakdown) = Len(facilities)
      /\ \A j, k \in 1..Len(breakdown) :
           j < k => breakdown[j].facilityCount >= breakdown[k].facilityCount

\* Of three records the first is alone in its subcounty and the other two
\* share Busaana: the breakdown has two entries and Busaana, with count 2,
\* comes first.
C16_Witness ==
    /\ pc = "ranked"
    /\ Len(facilities) = 3
    /\ SubcountyLabel(1) = Kayonza
    /\ SubcountyLabel(2) = Busaana /\ SubcountyLabel(3) = Busaana
    /\ Len(breakdown) = 2
    /\ breakdown[1].location = Busaana /\ breakdown[1].facilityCount = 2
    /\ breakdown[2].facilityCount = 1

-----------------------------------------------------------------------------
(* Counts by level and ownership *)

Primary == <<"P", "r", "i", "m", "a", "r", "y">>
Government == <<"G", "o", "v">>
Constructor == <<"c", "o", "n", "s", "t", "r", "u", "c", "t", "o", "r">>

\* Records with a level that is missing, empty, Primary, the label
\* Unknown written out, or the word constructor, and with or without an
\* ownership.
LabelRowPool ==
    { l @@ o :
        l \in { EmptyObject } \cup
              { Row1("level", v) :
                  v \in {<<>>, Primary, Unknown, Constructor} }
              \cup { Row1("Level", Primary) },
        o \in { EmptyObject, Row1("ownership", Government) } }

\* Largest number of records in a set counted by label.
MaxLabelRecords == 3

InitLabels ==
    /\ pc = "ready"
    /\ category \in {"education", "health"}
    /\ facilities \in SeqsUpTo(LabelRowPool, MaxLabelRecords)
    /\ metrics = <<>> /\ breakdown = <<>>
    /\ location = <<>> /\ filtered = <<>>
    /\ locations = <<>> /\ code = <<>> /\ found = <<>>
    /\ csvContent = <<>> /\ parsed = <<>>
    /\ line = <<>> /\ values = <<>> /\ fields = <<>> /\ wrapped = <<>>
    /\ argCurrent = 0 /\ argTarget = 0 /\ returnedSeverity = ""
    /\ benchmarkTables = <<>> /\ held = <<>>
    /\ dataCache = <<>> /\ calls = <<>>
    /\ fetchCount = <<>> /\ parseCount = <<>>
    /\ argValue = <<>> /\ returnedYes = FALSE
    /\ schema = <<>>
    /\ clock = 0 /\ rateLimitMap = <<>> /\ answered = <<>>
    /\ requestIP = "" /\ returnedLimited = FALSE
    /\ watchFrom = 0 /\ watchIP = "" /\ watchCount = 0
    /\ aiResponse = <<>> /\ givenResponse = <<>> /\ returnedResponse = <<>>

SpecLabels == InitLabels /\ [][NextMetrics]_vars

LevelNames(cat) ==
    IF cat = "education" THEN <<"level", "Level">>
    ELSE <<"level", "Level", "facility_level">>

\* The label of record i under the given names, Unknown without a
\* non-empty one.
LabelOf(i, names) ==
    LET v == FirstNonEmpty(facilities[i], names)
    IN  IF v = Undefined THEN Unknown ELSE v

\* Each label the records carry, with the number of records carrying it.
RecordsPerLabel(names) ==
    [l \in { LabelOf(i, names) : i \in 1..Len(facilities) } |->
        Cardinality({ i \in 1..Len(facilities) : LabelOf(i, names) = l })]

RECURSIVE SumOfValues(_)
SumOfValues(f) ==
    IF DOMAIN f = {} THEN 0
    ELSE LET k == CHOOSE x \in DOMAIN f : TRUE
         IN  f[k] + SumOfValues([x \in DOMAIN f \ {k} |-> f[x]])

\* C17: byLevel and byOwnership hold, for each label the records carry
\* (Unknown for a record without a non-empty one), the number of records
\* carrying it; so each adds up to totalFacilities, which is the number of
\* records.
C17_LabelCountsSumToTotal ==
    (pc = "done" /\ category \in {"education", "health"}) =>
      /\ metrics.byLevel = RecordsPerLabel(LevelNames(category))
      /\ metrics.byOwnership = RecordsPerLabel(<<"ownership", "Ownership">>)
      /\ SumOfValues(metrics.byLevel) = metrics.totalFacilities
      /\ SumOfValues(metrics.byOwnership) = metrics.totalFacilities
      /\ metrics.totalFacilities = Len(facilities)

\* C17 for records whose labels are not names that an object inherits.
LabelCountsOfOrdinaryLabels ==
    (/\ pc = "done"
     /\ category \in {"education", "health"}
     /\ \A i \in 1..Len(facilities) :
          LabelOf(i, LevelNames(category)) \notin InheritedNames \cup {ProtoName})
      => C17_LabelCountsSumToTotal

-----------------------------------------------------------------------------
(* Numeric sums of an education aggregate *)

\* The sums of an education aggregate, each as <<section, key, the field
\* names it is read from>>.
NumericAttributes ==
    << <<"enrollment", "totalLearners",
         <<"total_learners", "Total_Learners", "enrollment">> >>,
       <<"enrollment", "totalBoys", <<"boys_count">> >>,
       <<"enrollment", "totalGirls", <<"girls_count">> >>,
       <<"enrollment", "totalTeachers",
         <<"total_teachers", "Total_Teachers", "teachers">> >>,
       <<"enrollment", "totalMaleTeachers", <<"male_teachers">> >>,
       <<"enrollment", "totalFemaleTeachers", <<"female_teachers">> >>,
       <<"enrollment", "totalClassrooms",
         <<"total_classrooms", "Total_Classrooms", "classrooms">> >>,
       <<"enrollment", "totalDisabledLearners", <<"disabled_learners">> >>,
       <<"enrollment", "permanentClassrooms", <<"permanent_classrooms">> >>,
       <<"enrollment", "semiPermanentClassrooms",
         <<"semi_permanent_classrooms">> >>,
       <<"enrollment", "temporaryClassrooms", <<"temporary_classrooms">> >>,
       <<"teacherQualifications", "diplomaTeachers",
         <<"diploma_teachers">> >>,
       <<"teacherQualifications", "degreeTeachers", <<"degree_teachers">> >>,
       <<"teacherQualifications", "certificateTeachers",
         <<"certificate_teachers">> >>,
       <<"teacherQualifications", "govtPayrollTeachers",
         <<"govt_payroll_teachers">> >> >>

\* Cell values: empty, not a number, zero, negative, positive, with a
\* fraction, with a thousands separator.
NumericCells ==
    << <<>>, <<"a", "b", "c">>, <<"0">>, <<"-", "5">>, <<"5">>,
       <<"2", ".", "5">>, <<"1", Comma, "0", "0", "0">> >>

\* The record that has every numeric field, the j-th with the cell j +
\* shift places along NumericCells, so that no two sums of a set read the
\* same cells.
NumericRow(shift) ==
    [ name \in { NumericAttributes[j][3][1] : j \in 1..Len(NumericAttributes) }
        |-> LET j == CHOOSE x \in 1..Len(NumericAttributes) :
                         NumericAttributes[x][3][1] = name
            IN  NumericCells[((j + shift) % Len(NumericCells)) + 1] ]

NumericRowPool ==
    { NumericRow(shift) : shift \in 1..Len(NumericCells) }
    \cup { Row1("electricity_available", Yes) }

\* Largest number of records in a set whose numbers are summed.
MaxNumericRecords == 2

InitSums ==
    /\ pc = "ready"
    /\ category = "education"
    /\ facilities \in SeqsUpTo(NumericRowPool, MaxNumericRecords)
    /\ metrics = <<>> /\ breakdown = <<>>
    /\ location = <<>> /\ filtered = <<>>
    /\ locations = <<>> /\ code = <<>> /\ found = <<>>
    /\ csvContent = <<>> /\ parsed = <<>>
    /\ line = <<>> /\ values = <<>> /\ fields = <<>> /\ wrapped = <<>>
    /\ argCurrent = 0 /\ argTarget = 0 /\ returnedSeverity = ""
    /\ benchmarkTables = <<>> /\ held = <<>>
    /\ dataCache = <<>> /\ calls = <<>>
    /\ fetchCount = <<>> /\ parseCount = <<>>
    /\ argValue = <<>> /\ returnedYes = FALSE
    /\ schema = <<>>
    /\ clock = 0 /\ rateLimitMap = <<>> /\ answered = <<>>
    /\ requestIP = "" /\ returnedLimited = FALSE
    /\ watchFrom = 0 /\ watchIP = "" /\ watchCount = 0
    /\ aiResponse = <<>> /\ givenResponse = <<>> /\ returnedResponse = <<>>

SpecSums == InitSums /\ [][NextMetrics]_vars

\* What record i adds to the sum of an attribute: its parsed value when
\* that is above zero, nothing otherwise.
Contribution(i, attr) ==
    LET v == parseNumber(FirstNonEmpty(facilities[i], attr[3]))
    IN  IF v > 0 THEN v ELSE 0

\* The contributions of the first k records.
RECURSIVE ContributionsUpTo(_, _)
ContributionsUpTo(k, attr) ==
    IF k = 0 THEN 0
    ELSE ContributionsUpTo(k - 1, attr) + Contribution(k, attr)

\* The sum of the attribute in the aggregate of the first k records.
SumAfter(k, attr) ==
    calculateMetrics(SubSeq(facilities, 1, k), category)[attr[1]][attr[2]]

\* C18: each numeric sum of an education aggregate is the sum of the
\* parsed values above zero of its attribute, a record with a missing,
\* empty, non-numeric, zero or negative value adding nothing; it is never
\* negative and never decreases from one record to the next.
C18_SumsOfPositiveValues ==
    (pc = "done" /\ category = "education") =>
      \A j \in 1..Len(NumericAttributes) :
        LET attr == NumericAttributes[j]
        IN  /\ metrics[attr[1]][attr[2]]
                 = ContributionsUpTo(Len(facilities), attr)
            /\ metrics[attr[1]][attr[2]] >= 0
            /\ \A k \in 1..Len(facilities) :
                 SumAfter(k - 1, attr) <= SumAfter(k, attr)

\* Two records have been aggregated whose boys_count cells are -5 and 5:
\* totalBoys is 5.
C18_Witness ==
    /\ pc = "done"
    /\ category = "education"
    /\ Len(facilities) = 2
    /\ Get(facilities[1], "boys_count") = <<"-", "5">>
    /\ Get(facilities[2], "boys_count") = <<"5">>
    /\ metrics.enrollment.totalBoys = Scale * 5

-----------------------------------------------------------------------------
(* isYes on its own *)

\* Largest length of a value made of YesAlphabet.
MaxValueLen == 3

YesAlphabet == {"y", "Y", "e", "S", "1", " ", "n"}

\* Longer values: each token in some case, padded, and near misses.
LongerValues ==
    { <<"t", "r", "u", "e">>, <<"T", "R", "U", "E">>, <<"T", "r", "u", "e">>,
      <<" ", "Y", "e", "s", " ">>, <<"\t", "y", "e", "s", "\n">>,
      <<" ", " ", "1", " ", " ">>, <<"y", "e", "s", "s">>,
      <<"y", " ", "e", "s">>, <<"f", "a", "l", "s", "e">>,
      <<"t", "r", "u", "e", "1">>, <<" ", "\t", "\n", " ">> }

YesValues ==
    SeqsUpTo(YesAlphabet, MaxValueLen) \cup LongerValues \cup {Undefined}

InitIsYes ==
    /\ pc = "ready"
    /\ argValue \in YesValues
    /\ returnedYes = FALSE
    /\ facilities = <<>> /\ location = <<>> /\ filtered = <<>>
    /\ locations = <<>> /\ code = <<>> /\ found = <<>>
    /\ csvContent = <<>> /\ parsed = <<>>
    /\ line = <<>> /\ values = <<>> /\ fields = <<>> /\ wrapped = <<>>
    /\ category = "" /\ metrics = <<>> /\ breakdown = <<>>
    /\ argCurrent = 0 /\ argTarget = 0 /\ returnedSeverity = ""
    /\ benchmarkTables = <<>> /\ held = <<>>
    /\ dataCache = <<>> /\ calls = <<>>
    /\ fetchCount = <<>> /\ parseCount = <<>>
    /\ schema = <<>>
    /\ clock = 0 /\ rateLimitMap = <<>> /\ answered = <<>>
    /\ requestIP = "" /\ returnedLimited = FALSE
    /\ watchFrom = 0 /\ watchIP = "" /\ watchCount = 0
    /\ aiResponse = <<>> /\ givenResponse = <<>> /\ returnedResponse = <<>>

IsYes ==
    /\ pc = "ready"
    /\ returnedYes' = isYes(argValue)
    /\ pc' = "done"
    /\ UNCHANGED <<argValue, filterVars, resolverVars, csvVars, lineVars,
                   metricsVars, severityVars, aliasVars, loaderVars,
                   schemaVars,
                   rateVars,
                   responseVars>>

NextIsYes == IsYes

SpecIsYes == InitIsYes /\ [][NextIsYes]_vars

\* The value is the token t, in any case of its letters, between two
\* runs of white space.
IsPaddedToken(value, t) ==
    \E a \in 1..(Len(value) + 1) :
      /\ a + Len(t) - 1 <= Len(value)
      /\ \A i \in 1..Len(value) :
           IF i < a \/ i > a + Len(t) - 1
           THEN value[i] \in WhiteSpace
           ELSE \/ value[i] = t[i - a + 1]
                \/ \E k \in 1..26 : /\ value[i] = UpperCase[k]
                                    /\ t[i - a + 1] = LowerCase[k]

\* C19: isYes returns true exactly for the values that, as strings, trimmed
\* and lower-cased, are yes, y, true or 1; for every other value, the empty
\* one, the missing one and the one of white space too, it returns false.
C19_IsYesExactlyOnTokens ==
    pc = "done" =>
      returnedYes = (/\ argValue # Undefined
                     /\ \E t \in YesTokens : IsPaddedToken(argValue, t))

\* isYes has returned true for " Yes ".
C19_Witness ==
    /\ pc = "done"
    /\ argValue = <<" ", "Y", "e", "s", " ">>
    /\ returnedYes = TRUE

\* isYes has returned false for a value of white space only.
C19_WitnessWhiteSpace ==
    /\ pc = "done"
    /\ argValue = <<" ", "\t", "\n", " ">>
    /\ returnedYes = FALSE

-----------------------------------------------------------------------------
(* The benchmark table of an aggregate *)

\* The tables as the source text gives them, by category.
StaticTableOf(cat) ==
    IF cat = "education"
    THEN [ pupil_teacher_ratio_primary   |-> 40,
           pupil_teacher_ratio_secondary |-> 30,
           pupil_classroom_ratio         |-> 45,
           pupil_toilet_stance_ratio     |-> 40,
           electricity_target            |-> 100,
           water_target                  |-> 100,
           ict_lab_target                |-> 50 ]
    ELSE [ population_per_hc2      |-> 5000,
           population_per_hc3      |-> 20000,
           population_per_hc4      |-> 100000,
           population_per_hospital |-> 500000,
           electricity_target      |-> 100,
           water_target            |-> 100 ]

\* C20: for category education or health the aggregate carries, under
\* benchmarks, the table of that category, with the values of the source
\* text whatever the records are.
C20_BenchmarksOfCategoryAttached ==
    (pc = "done" /\ category \in {"education", "health"}) =>
      /\ "benchmarks" \in DOMAIN metrics
      /\ metrics.benchmarks = StaticTableOf(category)

\* A health set of three records, not all with electricity, has been
\* aggregated and carries the health table.
C20_Witness ==
    /\ pc = "done"
    /\ category = "health"
    /\ Len(facilities) = 3
    /\ metrics.infrastructure.withElectricity = 1
    /\ metrics.benchmarks.population_per_hc3 = 20000

-----------------------------------------------------------------------------
(* calculateMetrics with a category it has no aggregator for *)

\* Categories that are neither 'education' nor 'health', near misses
\* included.
UnknownCategories == {"agriculture", "Health", "EDUCATION", "", "healthcare"}

UnknownRowPool ==
    { [ electricity_available |-> Yes, water_available |-> No,
        total_learners |-> Hundred, total_teachers |-> TwoStaff ],
      [ electricity_available |-> No, water_available |-> Yes ],
      [ water |-> Yes, electricity |-> Yes ],
      [ water |-> No, power_sources |-> Yes ] }

\* Largest number of records in a call with such a category.
MaxUnknownRecords == 3

InitUnknown ==
    /\ pc = "ready"
    /\ category \in UnknownCategories
    /\ facilities \in SeqsUpTo(UnknownRowPool, MaxUnknownRecords)
    /\ metrics = <<>> /\ breakdown = <<>>
    /\ location = <<>> /\ filtered = <<>>
    /\ locations = <<>> /\ code = <<>> /\ found = <<>>
    /\ csvContent = <<>> /\ parsed = <<>>
    /\ line = <<>> /\ values = <<>> /\ fields = <<>> /\ wrapped = <<>>
    /\ argCurrent = 0 /\ argTarget = 0 /\ returnedSeverity = ""
    /\ benchmarkTables = <<>> /\ held = <<>>
    /\ dataCache = <<>> /\ calls = <<>>
    /\ fetchCount = <<>> /\ parseCount = <<>>
    /\ argValue = <<>> /\ returnedYes = FALSE
    /\ schema = <<>>
    /\ clock = 0 /\ rateLimitMap = <<>> /\ answered = <<>>
    /\ requestIP = "" /\ returnedLimited = FALSE
    /\ watchFrom = 0 /\ watchIP = "" /\ watchCount = 0
    /\ aiResponse = <<>> /\ givenResponse = <<>> /\ returnedResponse = <<>>

SpecUnknown == InitUnknown /\ [][NextMetrics]_vars

\* C21: for a category that is neither health nor education the call
\* returns an object without keys, whatever the records are.
C21_UnknownCategoryEmptyAggregate ==
    (pc = "done" /\ category \notin {"education", "health"}) =>
      DOMAIN metrics = {}

\* The call has returned for category 'Health' and two records.
C21_Witness ==
    /\ pc = "done"
    /\ category = "Health"
    /\ Len(facilities) = 2
    /\ DOMAIN metrics = {}

-----------------------------------------------------------------------------
(* getDataSchema *)

\* Object.keys(sampleData[0]) is held as the set of the keys.
getDataSchema(cat, sampleData) ==
    IF Len(sampleData) = 0
    THEN [ fields |-> {}, description |-> "No data available" ]
    ELSE [ category |-> cat,
           fields |-> DOMAIN sampleData[1],
           sampleCount |-> Len(sampleData),
           description |->
             IF cat = "health"
             THEN "Health facilities with infrastructure and service data"
             ELSE "Education facilities with enrollment and infrastructure data" ]

\* Largest number of records in a sample.
MaxSampleRecords == 3

InitSchema ==
    /\ pc = "ready"
    /\ category \in {"education", "health", OtherCategory}
    /\ facilities \in SeqsUpTo(UnknownRowPool, MaxSampleRecords)
    /\ schema = <<>>
    /\ metrics = <<>> /\ breakdown = <<>>
    /\ location = <<>> /\ filtered = <<>>
    /\ locations = <<>> /\ code = <<>> /\ found = <<>>
    /\ csvContent = <<>> /\ parsed = <<>>
    /\ line = <<>> /\ values = <<>> /\ fields = <<>> /\ wrapped = <<>>
    /\ argCurrent = 0 /\ argTarget = 0 /\ returnedSeverity = ""
    /\ benchmarkTables = <<>> /\ held = <<>>
    /\ dataCache = <<>> /\ calls = <<>>
    /\ fetchCount = <<>> /\ parseCount = <<>>
    /\ argValue = <<>> /\ returnedYes = FALSE
    /\ clock = 0 /\ rateLimitMap = <<>> /\ answered = <<>>
    /\ requestIP = "" /\ returnedLimited = FALSE
    /\ watchFrom = 0 /\ watchIP = "" /\ watchCount = 0
    /\ aiResponse = <<>> /\ givenResponse = <<>> /\ returnedResponse = <<>>

GetDataSchema ==
    /\ pc = "ready"
    /\ schema' = getDataSchema(category, facilities)
    /\ pc' = "done"
    /\ UNCHANGED <<filterVars, resolverVars, csvVars, lineVars, metricsVars,
                   severityVars, aliasVars, loaderVars, yesVars,
                   rateVars,
                   responseVars>>

NextSchema == GetDataSchema

SpecSchema == InitSchema /\ [][NextSchema]_vars

SchemaFields == {"category", "fields", "sampleCount", "description"}

\* C22: the object getDataSchema returns has the four fields category,
\* fields, sampleCount and description, for the empty sample too.
C22_SchemaHasFourFields ==
    pc = "done" => DOMAIN schema = SchemaFields

\* For a sample of at least one record the four fields are there, with
\* the category, the keys of the first record and the size of the sample.
SchemaOfNonEmptySample ==
    (pc = "done" /\ Len(facilities) > 0) =>
      /\ DOMAIN schema = SchemaFields
      /\ schema.category = category
      /\ schema.fields = DOMAIN facilities[1]
      /\ schema.sampleCount = Len(facilities)

\* For the empty sample the object has fields and description only.
SchemaOfEmptySample ==
    (pc = "done" /\ Len(facilities) = 0) =>
      DOMAIN schema = {"fields", "description"}

-----------------------------------------------------------------------------
(* isRateLimited and the rate limit of the fetch handler *)

RATE_LIMIT == 20
RATE_WINDOW == 60000

Clients == {"10.0.0.1", "unknown"}

\* rateLimitMap.set(key, value)
MapSet(m, key, value) ==
    [k \in DOMAIN m \cup {key} |-> IF k = key THEN value ELSE m[k]]

\* A limiter that moves the reset time of a client it rejects.
isRateLimited_rejectionExtends(m, clientIP, now) ==
    LET clientData == IF clientIP \in DOMAIN m THEN m[clientIP]
                      ELSE [count |-> 0, resetTime |-> now + RATE_WINDOW]
    IN  IF now > clientData.resetTime
        THEN [ limited |-> FALSE,
               map |-> MapSet(m, clientIP,
                          [count |-> 1, resetTime |-> now + RATE_WINDOW]) ]
        ELSE IF clientData.count >= RATE_LIMIT
        THEN [ limited |-> TRUE,
               map |-> MapSet(m, clientIP,
                          [clientData EXCEPT !.resetTime = now + RATE_WINDOW]) ]
        ELSE [ limited |-> FALSE,
               map |-> MapSet(m, clientIP,
                          [clientData EXCEPT !.count = @ + 1]) ]

\* isRateLimited(clientIP) at time now with the map m: what it returns and
\* the map it leaves.
isRateLimited(m, clientIP, now) ==
    LET clientData == IF clientIP \in DOMAIN m THEN m[clientIP]
                      ELSE [count |-> 0, resetTime |-> now + RATE_WINDOW]
    IN  IF now > clientData.resetTime
        THEN [ limited |-> FALSE,
               map |-> MapSet(m, clientIP,
                          [count |-> 1, resetTime |-> now + RATE_WINDOW]) ]
        ELSE IF clientData.count >= RATE_LIMIT
        THEN [ limited |-> TRUE, map |-> m ]
        ELSE [ limited |-> FALSE,
               map |-> MapSet(m, clientIP,
                          [clientData EXCEPT !.count = @ + 1]) ]

\* The clock is followed for MaxWindows steps of one window and, between
\* them, MaxOffset steps of one millisecond.
MaxWindows == 1
MaxOffset == 1

TimePoints ==
    { w * RATE_WINDOW + o : w \in 0..MaxWindows, o \in 0..MaxOffset }

\* No client is observed.
InitRate ==
    /\ pc = "serving"
    /\ clock = 0
    /\ rateLimitMap = <<>>
    /\ requestIP = "" /\ returnedLimited = FALSE
    /\ answered = [c \in Clients |-> "never"]
    /\ watchFrom = 0
    /\ watchIP = ""
    /\ watchCount = 0
    /\ facilities = <<>> /\ location = <<>> /\ filtered = <<>>
    /\ locations = <<>> /\ code = <<>> /\ found = <<>>
    /\ csvContent = <<>> /\ parsed = <<>>
    /\ line = <<>> /\ values = <<>> /\ fields = <<>> /\ wrapped = <<>>
    /\ category = "" /\ metrics = <<>> /\ breakdown = <<>>
    /\ argCurrent = 0 /\ argTarget = 0 /\ returnedSeverity = ""
    /\ benchmarkTables = <<>> /\ held = <<>>
    /\ dataCache = <<>> /\ calls = <<>>
    /\ fetchCount = <<>> /\ parseCount = <<>>
    /\ argValue = <<>> /\ returnedYes = FALSE
    /\ schema = <<>>
    /\ aiResponse = <<>> /\ givenResponse = <<>> /\ returnedResponse = <<>>

\* One client is observed from one point of time on.
InitRateObserved ==
    /\ pc = "serving"
    /\ clock = 0
    /\ rateLimitMap = <<>>
    /\ requestIP = "" /\ returnedLimited = FALSE
    /\ answered = [c \in Clients |-> "never"]
    /\ watchFrom \in TimePoints
    /\ watchIP \in Clients
    /\ watchCount = 0
    /\ facilities = <<>> /\ location = <<>> /\ filtered = <<>>
    /\ locations = <<>> /\ code = <<>> /\ found = <<>>
    /\ csvContent = <<>> /\ parsed = <<>>
    /\ line = <<>> /\ values = <<>> /\ fields = <<>> /\ wrapped = <<>>
    /\ category = "" /\ metrics = <<>> /\ breakdown = <<>>
    /\ argCurrent = 0 /\ argTarget = 0 /\ returnedSeverity = ""
    /\ benchmarkTables = <<>> /\ held = <<>>
    /\ dataCache = <<>> /\ calls = <<>>
    /\ fetchCount = <<>> /\ parseCount = <<>>
    /\ argValue = <<>> /\ returnedYes = FALSE
    /\ schema = <<>>
    /\ aiResponse = <<>> /\ givenResponse = <<>> /\ returnedResponse = <<>>

\* Time passes: one millisecond, or one window.
Tick ==
    /\ \/ /\ clock % RATE_WINDOW < MaxOffset
          /\ clock' = clock + 1
       \/ /\ clock \div RATE_WINDOW < MaxWindows
          /\ clock' = clock + RATE_WINDOW
    /\ UNCHANGED <<pc, rateLimitMap, requestIP, returnedLimited, answered,
                   watchFrom, watchIP, watchCount, filterVars, resolverVars,
                   csvVars, lineVars, metricsVars, severityVars, aliasVars,
                   loaderVars, yesVars, schemaVars,
                   responseVars>>

\* A POST to /query of a client reaches the rate limit test of fetch,
\* which answers 429 when isRateLimited returns true.
Request ==
    \E c \in Clients :
      \E r \in {isRateLimited(rateLimitMap, c, clock)} :
        /\ rateLimitMap' = r.map
        /\ requestIP' = c
        /\ returnedLimited' = r.limited
        /\ answered' = [answered EXCEPT ![c] =
                          IF r.limited THEN "limited"
                          ELSE IF @ = "limited" THEN "readmitted"
                          ELSE "admitted"]
        /\ watchCount' = IF /\ ~r.limited
                            /\ c = watchIP
                            /\ clock >= watchFrom
                            /\ clock < watchFrom + RATE_WINDOW
                         THEN watchCount + 1
                         ELSE watchCount
        /\ UNCHANGED <<pc, clock, watchFrom, watchIP, filterVars,
                       resolverVars, csvVars, lineVars, metricsVars,
                       severityVars, aliasVars, loaderVars, yesVars,
                       schemaVars,
                   responseVars>>

NextRate == Tick \/ Request

SpecRate == InitRate /\ [][NextRate]_vars

SpecRateObserved == InitRateObserved /\ [][NextRate]_vars

\* C23: no interval of one window holds more than RATE_LIMIT admitted
\* requests of one client.  The interval observed starts at watchFrom and
\* the client observed is watchIP, both chosen freely.
C23_AtMostLimitPerWindow ==
    watchCount <= RATE_LIMIT

\* Within the window that a client's first admitted request opened, no
\* more than RATE_LIMIT of its requests are admitted.
AtMostLimitPerCountedWindow ==
    \A c \in DOMAIN rateLimitMap :
        /\ rateLimitMap[c].count >= 1
        /\ rateLimitMap[c].count <= RATE_LIMIT

\* What a request of client c finds: no entry, an entry whose window is
\* over, a full window, or a window with room.
EntryState(m, c, now) ==
    IF c \notin DOMAIN m THEN "none"
    ELSE IF now > m[c].resetTime THEN "over"
    ELSE IF m[c].count >= RATE_LIMIT THEN "full"
    ELSE "room"

\* C28: a rejected request changes no counter and no reset time; the first
\* request of a client after its reset time, also of a client that was
\* being rejected, is admitted and starts a window with count 1 at that
\* time; a request of one client changes neither the entry of another
\* client nor whether that client's request would be admitted.
C28_ReadmittedAfterReset ==
    [][ clock' = clock =>
          LET c == requestIP'
          IN  /\ returnedLimited' => rateLimitMap' = rateLimitMap
              /\ returnedLimited' = (EntryState(rateLimitMap, c, clock) = "full")
              /\ EntryState(rateLimitMap, c, clock) = "over" =>
                   /\ ~returnedLimited'
                   /\ rateLimitMap'[c] =
                        [count |-> 1, resetTime |-> clock + RATE_WINDOW]
              /\ \A d \in Clients \ {c} :
                   /\ d \in DOMAIN rateLimitMap' <=> d \in DOMAIN rateLimitMap
                   /\ d \in DOMAIN rateLimitMap =>
                        rateLimitMap'[d] = rateLimitMap[d]
                   /\ EntryState(rateLimitMap', d, clock)
                        = EntryState(rateLimitMap, d, clock) ]_vars

\* A client that was being rejected has been admitted on its first request
\* after its reset time, while the other client's window is full.
C28_Witness ==
    /\ answered["10.0.0.1"] = "readmitted"
    /\ requestIP = "10.0.0.1"
    /\ ~returnedLimited
    /\ rateLimitMap["10.0.0.1"] =
         [count |-> 1, resetTime |-> clock + RATE_WINDOW]
    /\ "unknown" \in DOMAIN rateLimitMap
    /\ EntryState(rateLimitMap, "unknown", clock) = "full"

-----------------------------------------------------------------------------
(* The severity of a pupil-teacher ratio gap *)

\* Records of ten teachers each, with learner numbers that put the ratio
\* on both sides of each threshold; the numbers are even, so that the
\* ratio of one or two records has one decimal.
LearnerNumbers ==
    { <<"4", "0", "0">>, <<"4", "0", "2">>, <<"4", "4", "4">>,
      <<"4", "4", "6">>, <<"5", "3", "2">>, <<"5", "3", "4">>,
      <<"8", "0", "0">>, <<"8", "0", "2">>, <<"1", "0", "0", "0">> }

RatioRowPool ==
    { [ total_learners |-> n, total_teachers |-> <<"1", "0">> ] :
        n \in LearnerNumbers }

\* Largest number of records in a set of this part.
MaxRatioRecords == 2

InitRatios ==
    /\ pc = "ready"
    /\ category = "education"
    /\ facilities \in SeqsUpTo(RatioRowPool, MaxRatioRecords)
    /\ metrics = <<>> /\ breakdown = <<>>
    /\ location = <<>> /\ filtered = <<>>
    /\ locations = <<>> /\ code = <<>> /\ found = <<>>
    /\ csvContent = <<>> /\ parsed = <<>>
    /\ line = <<>> /\ values = <<>> /\ fields = <<>> /\ wrapped = <<>>
    /\ argCurrent = 0 /\ argTarget = 0 /\ returnedSeverity = ""
    /\ benchmarkTables = <<>> /\ held = <<>>
    /\ dataCache = <<>> /\ calls = <<>>
    /\ fetchCount = <<>> /\ parseCount = <<>>
    /\ argValue = <<>> /\ returnedYes = FALSE
    /\ schema = <<>>
    /\ clock = 0 /\ rateLimitMap = <<>> /\ answered = <<>>
    /\ requestIP = "" /\ returnedLimited = FALSE
    /\ watchFrom = 0 /\ watchIP = "" /\ watchCount = 0
    /\ aiResponse = <<>> /\ givenResponse = <<>> /\ returnedResponse = <<>>

SpecRatios == InitRatios /\ [][NextMetrics]_vars

\* The pupil_teacher_ratio gaps of an aggregate.
PupilTeacherGaps(aggregate) ==
    SelectSeq(aggregate.gaps, LAMBDA g : g.type = "pupil_teacher_ratio")

SeverityRank(level) ==
    CASE level = "low" -> 1
      [] level = "medium" -> 2
      [] level = "high" -> 3
      [] level = "critical" -> 4

\* The aggregates of the first k records, for each k, that have a
\* pupil_teacher_ratio gap, each as that gap.
GapsOfPrefixes ==
    { PupilTeacherGaps(calculateMetrics(SubSeq(facilities, 1, k),
                                        category))[1] :
        k \in { j \in 1..Len(facilities) :
                  PupilTeacherGaps(calculateMetrics(SubSeq(facilities, 1, j),
                                                    category)) # <<>> } }

\* C24: the severity of a pupil_teacher_ratio gap is that of the ratio
\* benchmark / current: critical exactly when the pupil-teacher ratio is
\* above twice the benchmark, high, medium and low by the thresholds 0.75
\* and 0.9 of benchmark / current; and of two aggregates with such a gap
\* the one with the higher ratio has no less severe a level.
C24_PupilTeacherSeverityInverted ==
    (pc = "done" /\ category = "education") =>
      /\ \A i \in 1..Len(PupilTeacherGaps(metrics)) :
           LET g == PupilTeacherGaps(metrics)[i]
               b == Scale * g.benchmark
           IN  /\ g.severity = "critical" <=> g.current > 2 * b
               /\ g.severity = "high"
                    <=> (g.current <= 2 * b /\ 3 * g.current > 4 * b)
               /\ g.severity = "medium"
                    <=> (3 * g.current <= 4 * b /\ 9 * g.current > 10 * b)
               /\ g.severity = "low" <=> 9 * g.current <= 10 * b
      /\ \A g1, g2 \in GapsOfPrefixes :
           g1.current <= g2.current
             => SeverityRank(g1.severity) <= SeverityRank(g2.severity)

\* Two records have been aggregated: the first alone has the ratio 80.0
\* and a high gap, both together 80.1 and a critical gap.
C24_Witness ==
    /\ pc = "done"
    /\ category = "education"
    /\ Len(facilities) = 2
    /\ \E g1, g2 \in GapsOfPrefixes :
         /\ g1.current = 800 /\ g1.severity = "high"
         /\ g2.current = 801 /\ g2.severity = "critical"
    /\ PupilTeacherGaps(metrics)[1].severity = "critical"

-----------------------------------------------------------------------------
(* The category of a subcounty group *)

HealthCentre == <<"H", "e", "a", "l", "t", "h", " ", "I", "I">>
PublicHEALTH == <<"p", "H", "E", "A", "L", "T", "H">>

\* Records of two subcounties whose level is missing, names a health
\* facility in two casings, names a school, or is given as Level only.
CategoryRowPool ==
    { Row1("subcounty", sc) @@ l @@ Row1("water", Yes) :
        sc \in {Busaana, Kayonza},
        l \in { EmptyObject,
                Row1("level", HealthCentre),
                Row1("level", PublicHEALTH),
                Row1("level", Primary),
                Row1("Level", HealthCentre) } }

\* Largest number of records in a set of this part.
MaxCategoryRecords == 2

InitCategories ==
    /\ pc = "ready"
    /\ category \in {"education", "health"}
    /\ facilities \in SeqsUpTo(CategoryRowPool, MaxCategoryRecords)
    /\ metrics = <<>> /\ breakdown = <<>>
    /\ location = <<>> /\ filtered = <<>>
    /\ locations = <<>> /\ code = <<>> /\ found = <<>>
    /\ csvContent = <<>> /\ parsed = <<>>
    /\ line = <<>> /\ values = <<>> /\ fields = <<>> /\ wrapped = <<>>
    /\ argCurrent = 0 /\ argTarget = 0 /\ returnedSeverity = ""
    /\ benchmarkTables = <<>> /\ held = <<>>
    /\ dataCache = <<>> /\ calls = <<>>
    /\ fetchCount = <<>> /\ parseCount = <<>>
    /\ argValue = <<>> /\ returnedYes = FALSE
    /\ schema = <<>>
    /\ clock = 0 /\ rateLimitMap = <<>> /\ answered = <<>>
    /\ requestIP = "" /\ returnedLimited = FALSE
    /\ watchFrom = 0 /\ watchIP = "" /\ watchCount = 0
    /\ aiResponse = <<>> /\ givenResponse = <<>> /\ returnedResponse = <<>>

SpecCategories == InitCategories /\ [][NextMetrics]_vars

\* The letters of s from place i on read health, in any casing.
ReadsHealthAt(s, i) ==
    /\ i + 5 <= Len(s)
    /\ \A j \in 1..6 :
         \/ s[i + j - 1] = Health[j]
         \/ \E k \in 1..26 : /\ s[i + j - 1] = UpperCase[k]
                             /\ Health[j] = LowerCase[k]

\* The category expected for the group of a label: by the level field of
\* the first record of the group.
ExpectedCategory(label) ==
    LET first == facilities[CHOOSE i \in 1..Len(facilities) :
                     /\ SubcountyLabel(i) = label
                     /\ \A j \in 1..(i - 1) : SubcountyLabel(j) # label]
    IN  IF /\ "level" \in DOMAIN first
           /\ \E i \in 1..Len(first.level) : ReadsHealthAt(first.level, i)
        THEN "health"
        ELSE "education"

\* The records of the group of a label, in input order.
GroupOf(label) ==
    SelectSeq(facilities, LAMBDA f :
        \E i \in 1..Len(facilities) :
            facilities[i] = f /\ SubcountyLabel(i) = label)

\* C25: each entry of the breakdown is the aggregate of all records of its
\* group under one category, health when the level field of the group's
\* first record contains health in any casing and education otherwise,
\* also when that field is missing; the category the caller used for the
\* overall aggregate plays no part.
C25_GroupCategoryFromFirstLevel ==
    pc = "ranked" =>
      \A k \in 1..Len(breakdown) :
        LET entry == breakdown[k]
            aggregate == calculateMetrics(GroupOf(entry.location),
                                          ExpectedCategory(entry.location))
        IN  /\ DOMAIN entry = DOMAIN aggregate \cup {"location", "facilityCount"}
            /\ \A key \in DOMAIN aggregate : entry[key] = aggregate[key]

\* The caller's category is health; a group of two records whose first
\* names a school and whose second names a health centre has been
\* aggregated as education.
C25_Witness ==
    /\ pc = "ranked"
    /\ category = "health"
    /\ Len(facilities) = 2
    /\ SubcountyLabel(1) = SubcountyLabel(2)
    /\ Get(facilities[1], "level") = Primary
    /\ Get(facilities[2], "level") = HealthCentre
    /\ Len(breakdown) = 1
    /\ "enrollment" \in DOMAIN breakdown[1]
    /\ breakdown[1].totalFacilities = 2

-----------------------------------------------------------------------------
(* What loadCSVData returns from the cache *)

\* What a call returns in a process whose cache is empty and whose source
\* is served.
FreshLoad(call) ==
    returnedFor(call,
        IF call.kind = "locations"
        THEN JSONParse(SourceText[fileOf(call)])
        ELSE districtRows(namedRows(parseCSV(SourceText[fileOf(call)])),
                          call.location))

\* C26: a call answered from the cache returns what the same call returns
\* on an empty cache, whatever calls were made before; in particular its
\* rows have no location_code or one that starts with the district of its
\* location.
C26_CacheHitSameAsFreshLoad ==
    \A c \in 1..MaxCalls :
        (calls[c].pc = "returned" /\ calls[c].from = "cache") =>
          /\ calls[c].result = FreshLoad(calls[c])
          /\ (calls[c].kind = "csv"
                /\ Truthy(Get(calls[c].location, "district"))) =>
               \A i \in 1..Len(calls[c].result) :
                 LET locationCode == Get(calls[c].result[i], "location_code")
                 IN  \/ ~Truthy(locationCode)
                     \/ StartsWith(locationCode, calls[c].location.district)

\* A call that loads from the source returns what it returns on an empty
\* cache.
LoadFromSourceIsFresh ==
    \A c \in 1..MaxCalls :
        (calls[c].pc = "returned" /\ calls[c].from = "source") =>
          calls[c].result = FreshLoad(calls[c])

-----------------------------------------------------------------------------
(* Loads that come back without content *)

\* C27: a load that finds no content returns the empty value and leaves
\* the cache as it was; a call whose key is not in the cache starts a
\* fetch, so after a failure the next call for the key loads again, and a
\* load that finds content stores and returns the data of the source; no
\* entry is ever removed, and none changes but by a load that found
\* content.
C27_FailureNotCached ==
    [][ \A c \in 1..MaxCalls :
          /\ (calls[c].pc = "fetching" /\ calls'[c].pc = "returned") =>
               IF calls'[c].from = "nothing"
               THEN /\ calls'[c].result = <<>>
                    /\ dataCache' = dataCache
               ELSE /\ calls'[c].from = "source"
                    /\ calls'[c].result = FreshLoad(calls[c])
                    /\ cacheKeyOf(calls[c]) \in DOMAIN dataCache'
                    /\ parseCount'[cacheKeyOf(calls[c])]
                         = parseCount[cacheKeyOf(calls[c])] + 1
          /\ (calls[c].pc = "idle" /\ calls'[c].pc # "idle"
                /\ cacheKeyOf(calls'[c]) \notin DOMAIN dataCache) =>
               /\ calls'[c].pc = "fetching"
               /\ fetchCount'[cacheKeyOf(calls'[c])]
                    = fetchCount[cacheKeyOf(calls'[c])] + 1
          /\ \A k \in DOMAIN dataCache :
               /\ k \in DOMAIN dataCache'
               /\ dataCache'[k] # dataCache[k] =>
                    \E d \in 1..MaxCalls :
                        /\ calls[d].pc = "fetching"
                        /\ calls'[d].pc = "returned"
                        /\ calls'[d].from = "source"
                        /\ cacheKeyOf(calls[d]) = k ]_vars

\* Of two calls of loadLocations one found no content and the other
\* loaded the document: the source was fetched twice and parsed once, and
\* the document is in the cache.
C27_Witness ==
    /\ \A c \in 1..2 : calls[c].pc = "returned" /\ calls[c].kind = "locations"
    /\ calls[1].from = "nothing" /\ calls[1].result = <<>>
    /\ calls[2].from = "source"
    /\ locationsCacheKey \in DOMAIN dataCache
    /\ fetchCount[locationsCacheKey] = 2
    /\ parseCount[locationsCacheKey] = 1

-----------------------------------------------------------------------------
(* validateResponse.  A property value is written as the sequence of the
   characters of its text; an array is the sequence of its items. *)

Answer ==
    << "a", "n", "s", "w", "e", "r" >>

Filter ==
    << "f", "i", "l", "t", "e", "r" >>

Comparison ==
    << "c", "o", "m", "p", "a", "r", "i", "s", "o", "n" >>

Clarification ==
    << "c", "l", "a", "r", "i", "f", "i", "c", "a", "t", "i", "o", "n" >>

GridView ==
    << "g", "r", "i", "d" >>

MapView ==
    << "m", "a", "p" >>

\* The text returned for a response without type or text.
IssueText ==
    << "I", " ", "e", "n", "c", "o", "u", "n", "t", "e", "r", "e", "d", " ",
    "a", "n", " ", "i", "s", "s", "u", "e", " ", "p", "r", "o", "c", "e",
    "s", "s", "i", "n", "g", " ", "y", "o", "u", "r", " ", "q", "u", "e",
    "r", "y", ".", " ", "P", "l", "e", "a", "s", "e", " ", "t", "r", "y",
    " ", "r", "e", "p", "h", "r", "a", "s", "i", "n", "g", " ", "i", "t",
    "." >>

IssueSuggestion1 ==
    << "T", "r", "y", " ", "a", "s", "k", "i", "n", "g", " ", "a", "b", "o",
    "u", "t", " ", "s", "p", "e", "c", "i", "f", "i", "c", " ", "m", "e",
    "t", "r", "i", "c", "s", " ", "(", "e", ".", "g", ".", ",", " ", "\"",
    "H", "o", "w", " ", "m", "a", "n", "y", " ", "s", "c", "h", "o", "o",
    "l", "s", " ", "h", "a", "v", "e", " ", "e", "l", "e", "c", "t", "r",
    "i", "c", "i", "t", "y", "?", "\"", ")" >>

IssueSuggestion2 ==
    << "A", "s", "k", " ", "f", "o", "r", " ", "c", "o", "m", "p", "a", "r",
    "i", "s", "o", "n", "s", " ", "(", "e", ".", "g", ".", ",", " ", "\"",
    "W", "h", "i", "c", "h", " ", "s", "u", "b", "c", "o", "u", "n", "t",
    "y", " ", "h", "a", "s", " ", "t", "h", "e", " ", "m", "o", "s", "t",
    " ", "h", "e", "a", "l", "t", "h", " ", "f", "a", "c", "i", "l", "i",
    "t", "i", "e", "s", "?", "\"", ")" >>

IssueSuggestion3 ==
    << "R", "e", "q", "u", "e", "s", "t", " ", "f", "i", "l", "t", "e", "r",
    "e", "d", " ", "d", "a", "t", "a", " ", "(", "e", ".", "g", ".", ",",
    " ", "\"", "S", "h", "o", "w", " ", "m", "e", " ", "s", "c", "h", "o",
    "o", "l", "s", " ", "w", "i", "t", "h", "o", "u", "t", " ", "w", "a",
    "t", "e", "r", "\"", ")" >>

IssueSuggestions == <<IssueSuggestion1, IssueSuggestion2, IssueSuggestion3>>

DefaultSuggestion1 ==
    << "T", "r", "y", " ", "b", "e", "i", "n", "g", " ", "m", "o", "r", "e",
    " ", "s", "p", "e", "c", "i", "f", "i", "c", " ", "a", "b", "o", "u",
    "t", " ", "w", "h", "a", "t", " ", "y", "o", "u", " ", "w", "a", "n",
    "t", " ", "t", "o", " ", "k", "n", "o", "w" >>

DefaultSuggestion2 ==
    << "S", "p", "e", "c", "i", "f", "y", " ", "a", " ", "l", "o", "c", "a",
    "t", "i", "o", "n", " ", "o", "r", " ", "m", "e", "t", "r", "i", "c",
    " ", "y", "o", "u", "'", "r", "e", " ", "i", "n", "t", "e", "r", "e",
    "s", "t", "e", "d", " ", "i", "n" >>

DefaultSuggestion3 ==
    << "A", "s", "k", " ", "a", "b", "o", "u", "t", " ", "a", " ", "s", "p",
    "e", "c", "i", "f", "i", "c", " ", "c", "a", "t", "e", "g", "o", "r",
    "y", " ", "(", "h", "e", "a", "l", "t", "h", " ", "o", "r", " ", "e",
    "d", "u", "c", "a", "t", "i", "o", "n", ")" >>

DefaultSuggestions ==
    <<DefaultSuggestion1, DefaultSuggestion2, DefaultSuggestion3>>

validTypes == {Answer, Filter, Comparison, Clarification}

\* viewMap[type] || 'grid'
getDefaultView(type) ==
    CASE type = Answer -> GridView
      [] type = Filter -> MapView
      [] type = Comparison -> Comparison
      [] type = Clarification -> GridView
      [] OTHER -> GridView

\* if (response[key]) cleaned[key] = response[key]
Copied(response, key) ==
    When(Truthy(Get(response, key)), key :> Get(response, key))

\* A switch whose answer case has no break and runs on into the filter case.
typeFields_fallThrough(response) ==
    LET filterFields ==
            Copied(response, "filters")
            @@ When(Get(response, "resultCount") # Undefined,
                    "resultCount" :> Get(response, "resultCount"))
            @@ Copied(response, "facilities")
            @@ Copied(response, "suggestedAction")
    IN  CASE response["type"] = Answer ->
               Copied(response, "data") @@ Copied(response, "suggestedAction")
               @@ filterFields
          [] response["type"] = Filter -> filterFields
          [] response["type"] = Comparison ->
               Copied(response, "rankings") @@ Copied(response, "insights")
               @@ Copied(response, "suggestedAction")
          [] response["type"] = Clarification ->
               "suggestions" :> Or(Get(response, "suggestions"),
                                   DefaultSuggestions)

\* switch (response.type): the type-specific fields of cleaned.
typeFields(response) ==
    CASE response["type"] = Answer ->
           Copied(response, "data") @@ Copied(response, "suggestedAction")
      [] response["type"] = Filter ->
           Copied(response, "filters")
           @@ When(Get(response, "resultCount") # Undefined,
                   "resultCount" :> Get(response, "resultCount"))
           @@ Copied(response, "facilities")
           @@ Copied(response, "suggestedAction")
      [] response["type"] = Comparison ->
           Copied(response, "rankings") @@ Copied(response, "insights")
           @@ Copied(response, "suggestedAction")
      [] response["type"] = Clarification ->
           "suggestions" :> Or(Get(response, "suggestions"),
                               DefaultSuggestions)

\* response after the two assignments validateResponse may make to it.
normalised(response) ==
    LET typed == IF response["type"] \in validTypes
                 THEN response
                 ELSE ("type" :> Clarification) @@ response
    IN  IF Truthy(Get(typed, "suggestedView"))
        THEN typed
        ELSE ("suggestedView" :> getDefaultView(typed["type"])) @@ typed

\* The pair of the returned object and the argument as the call leaves it.
validateResponse(response) ==
    IF ~Truthy(Get(response, "type")) \/ ~Truthy(Get(response, "text"))
    THEN [ cleaned |-> [ type |-> Clarification,
                         text |-> IssueText,
                         suggestions |-> IssueSuggestions,
                         suggestedView |-> GridView ],
           response |-> response ]
    ELSE LET changed == normalised(response)
         IN  [ cleaned |-> [ type |-> changed["type"],
                             text |-> changed["text"],
                             suggestedView |-> changed["suggestedView"] ]
                           @@ typeFields(changed),
               response |-> changed ]

\* The values a property of the parsed reply takes here: absent, the empty
\* string, and values that are truthy.
OtherType == << "t", "a", "b", "l", "e" >>
SomeText == << "4", "2", " ", "s", "c", "h", "o", "o", "l", "s" >>
SomeValue == << "{", "}" >>
SomeSuggestions == << << "a", "s", "k" >>, << "a", "g", "a", "i", "n" >> >>

\* The objects with the property key absent or holding one of vals.
WithProperty(objects, key, vals) ==
    objects \cup {(key :> v) @@ o : v \in vals, o \in objects}

ResponsePool ==
    LET typed == WithProperty({EmptyObject}, "type",
                     {<<>>, OtherType} \cup validTypes)
        worded == WithProperty(typed, "text", {<<>>, SomeText})
        viewed == WithProperty(worded, "suggestedView", {<<>>, MapView})
        answers == WithProperty(
                       WithProperty(viewed, "data", {<<>>, SomeValue}),
                       "suggestedAction", {SomeValue})
        filters == WithProperty(
                       WithProperty(
                           WithProperty(answers, "filters", {SomeValue}),
                           "resultCount", {Null}),
                       "facilities", {SomeValue})
        comparisons == WithProperty(
                           WithProperty(filters, "rankings", {SomeValue}),
                           "insights", {SomeValue})
    IN  WithProperty(comparisons, "suggestions", {<<>>, SomeSuggestions})

InitResponse ==
    /\ pc = "ready"
    /\ aiResponse \in ResponsePool
    /\ givenResponse = aiResponse
    /\ returnedResponse = <<>>
    /\ facilities = <<>> /\ category = "" /\ schema = <<>>
    /\ metrics = <<>> /\ breakdown = <<>>
    /\ location = <<>> /\ filtered = <<>>
    /\ locations = <<>> /\ code = <<>> /\ found = <<>>
    /\ csvContent = <<>> /\ parsed = <<>>
    /\ line = <<>> /\ values = <<>> /\ fields = <<>> /\ wrapped = <<>>
    /\ argCurrent = 0 /\ argTarget = 0 /\ returnedSeverity = ""
    /\ benchmarkTables = <<>> /\ held = <<>>
    /\ dataCache = <<>> /\ calls = <<>>
    /\ fetchCount = <<>> /\ parseCount = <<>>
    /\ argValue = <<>> /\ returnedYes = FALSE
    /\ clock = 0 /\ rateLimitMap = <<>> /\ answered = <<>>
    /\ requestIP = "" /\ returnedLimited = FALSE
    /\ watchFrom = 0 /\ watchIP = "" /\ watchCount = 0

\* const finalResponse = validateResponse(aiResponse)
ValidateResponse ==
    /\ pc = "ready"
    /\ \E result \in {validateResponse(aiResponse)} :
           /\ returnedResponse' = result.cleaned
           /\ aiResponse' = result.response
    /\ pc' = "done"
    /\ UNCHANGED <<givenResponse, filterVars, resolverVars, csvVars, lineVars,
                   metricsVars, severityVars, aliasVars, loaderVars, yesVars,
                   schemaVars, rateVars>>

NextResponse == ValidateResponse

SpecResponse == InitResponse /\ [][NextResponse]_vars

\* The types each field besides type, text and suggestedView may go with.
TypeSpecificFields ==
    [ data |-> {Answer},
      filters |-> {Filter}, resultCount |-> {Filter},
      facilities |-> {Filter},
      rankings |-> {Comparison}, insights |-> {Comparison},
      suggestions |-> {Clarification},
      suggestedAction |-> {Answer, Filter, Comparison} ]

LacksTypeOrText(obj) ==
    \/ "type" \notin DOMAIN obj \/ obj["type"] = <<>>
    \/ "text" \notin DOMAIN obj \/ obj["text"] = <<>>

C29_WitnessUnrecognized ==
    /\ pc = "done"
    /\ Get(givenResponse, "type") = OtherType
    /\ Get(givenResponse, "text") = SomeText
    /\ returnedResponse["type"] = Clarification
    /\ aiResponse["type"] = Clarification
    /\ returnedResponse["suggestions"] = DefaultSuggestions

-----------------------------------------------------------------------------
(* The presence counts and the facility shares *)

\* The counts a record raises by one when it says yes, as <<section, key>>.
PresenceCounts(cat) ==
    IF cat = "education"
    THEN { <<"infrastructure", k>> :
             k \in { "withElectricity", "withWater", "withICTLab",
                     "withHandwashing", "withDisabilityAccessibleToilets",
                     "withSeparateGenderToilets" } }
    ELSE { <<"infrastructure", k>> :
             k \in { "withElectricity", "withBackupPower", "withWater",
                     "withAmbulance", "withMaternity", "withLaboratory",
                     "withDeliveryRoom", "withInpatientWard" } }
         \cup { <<"services", k>> :
             k \in { "offeringHIV", "offeringMaternal", "offeringChildHealth",
                     "offeringImmunization", "offeringDiagnostics",
                     "offeringFamilyPlanning", "offeringSurgery" } }
         \cup { <<"supplies", k>> :
             k \in { "withICCMSupplies", "withORSSachets", "withZincTablets",
                     "withRDTKits", "withACTTablets", "withAmoxicillin" } }

\* The shares of totalFacilities among the derived fields.
SharesOfFacilities(cat) == { d \in DerivedFields(cat) : d[3] = "" }

\* C30: in an education or health aggregate every presence count
\* (withElectricity, withWater, offeringHIV, withRDTKits and the others) is
\* at least 0 and at most totalFacilities, and every share of the
\* facilities that is present is at least 0 and at most 100.
C30_PresenceCountsWithinTotal ==
    (pc = "done" /\ category \in {"education", "health"}) =>
      /\ metrics["totalFacilities"] = Len(facilities)
      /\ \A c \in PresenceCounts(category) :
           /\ c[2] \in DOMAIN metrics[c[1]]
           /\ metrics[c[1]][c[2]] \in 0..metrics["totalFacilities"]
      /\ \A d \in SharesOfFacilities(category) :
           d[2] \in DOMAIN metrics[d[1]]
             => metrics[d[1]][d[2]] \in 0..(100 * Scale)

\* Three health records, each with yes for power_sources and for
\* electricity: withElectricity is 3, not 6, and the share is 100.0.
C30_Witness ==
    /\ pc = "done" /\ category = "health"
    /\ Len(facilities) = MaxRecords
    /\ \A i \in 1..Len(facilities) :
         /\ isYes(Get(facilities[i], "power_sources"))
         /\ isYes(Get(facilities[i], "electricity"))
    /\ metrics["infrastructure"]["withElectricity"] = MaxRecords
    /\ metrics["infrastructure"]["electricityPercentage"] = 100 * Scale
    /\ metrics["infrastructure"]["withWater"] = MaxRecords

====
